---- MODULE Spec2Model ----
(***************************************************************************)
(* A model of qpool: the pool scheduler Q (NewQ, manage, Schedule, Close,  *)
(* startWorker), the worker loop Worker.run, the scaler, the result store  *)
(* QSpace, the circuit breaker, the load balancer, the rate limiter and    *)
(* the entanglement.                                                       *)
(*                                                                         *)
(* The specifications share the variables:                                 *)
(*   Spec              the pool: one submitting client, the dispatcher,    *)
(*                     the workers, the scaler, the metrics collector and  *)
(*                     Close;                                              *)
(*   SpecCircuit       the same pool under jobs that may fail and may      *)
(*                     name a circuit;                                     *)
(*   SpecDependencies  the open pool with every worker started, under      *)
(*                     jobs with retries and dependencies;                 *)
(*   FairDependencies  the same under fair scheduling;                     *)
(*   SpecSpace         the result store driven directly (Store,            *)
(*                     StoreError, Await, Exists, cleanup) under a clock;  *)
(*   SpecCB            one circuit breaker driven directly under a clock;  *)
(*   SpecScaler        the open pool with a second scaler that may remove  *)
(*                     workers, under a clock;                             *)
(*   FairScaler        the same under fair scheduling;                     *)
(*   SpecRetry         the retry loop of one job with backoff;             *)
(*   SpecQueue         Schedule calls that overrun the job queue of a pool *)
(*                     without workers;                                    *)
(*   SpecLB            one load balancer driven directly;                  *)
(*   SpecRL            one rate limiter driven directly under a clock;     *)
(*   SpecRel           AddRelationship calls on the result store;          *)
(*   SpecEnt           UpdateState and ReplayStateChanges of one           *)
(*                     entanglement, run by several goroutines;            *)
(*   FairEnt           the same under fair scheduling;                     *)
(*   SpecCallers       one circuit breaker called by several goroutines;   *)
(*   SpecSameId        the open pool under jobs that share one id;         *)
(*   SpecBounds        the pool's scaler and a second scaler with a lower  *)
(*                     minWorkers, under a growing and shrinking queue.    *)
(***************************************************************************)
EXTENDS Integers, Sequences, FiniteSets, TLC

(* ------------------------------ bounds -------------------------------- *)

\* NewQ(ctx, MinWorkers, MaxWorkers, config)
MinWorkers == 1
MaxWorkers == 2
\* number of Schedule calls the client makes
MaxCalls == 5
\* number of Close calls
MaxCloseCalls == 2
\* WithCircuitBreaker(id, CircuitMaxFailures, resetTimeout)
CircuitMaxFailures == 2
\* number of Schedule calls of the client that uses circuits
CircuitCalls == 3

(* -------------------------- program constants ------------------------- *)

\* jobs: make(chan Job, maxWorkers*10)
JobQueueFactor == 10
\* ScalerConfig in NewQ
TargetLoad == 2
ScaleUpThreshold == 4
ScaleDownThreshold == 1

JobsCap == MaxWorkers * JobQueueFactor
WorkersCap == MaxWorkers

Min(a, b) == IF a < b THEN a ELSE b
Max(a, b) == IF a > b THEN a ELSE b
\* int(math.Ceil(float64(n) / d)) for n >= 0, d > 0
CeilDiv(n, d) == (n + d - 1) \div d

VARIABLES
  \* ---- Q
  cancelled,      \* q.ctx is cancelled
  panicked,       \* "none", or the runtime panic that ended the process
  jobs,           \* buffer of q.jobs
  jobsClosed,
  workers,        \* buffer of q.workers (worker ids standing for their slots)
  workersClosed,
  quitClosed,
  workerList,     \* q.workerList
  slotClosed,     \* workers whose jobs channel is closed
  breakers,       \* q.breakers: circuit id -> breaker
  \* ---- goroutines
  wpc, wjob, wres,   \* Worker.run
  wdeps,             \* Worker.processJobWithTimeout: the dependency loop
  mpc, mjob, mslot,  \* Q.manage
  spc,               \* Scaler.run
  lastScale,         \* Scaler.lastScale
  cpc,               \* Q.collectMetrics
  closePc,           \* callers of Q.Close
  nCalls,            \* Schedule calls made so far
  \* ---- Metrics
  metricsMu,      \* "free", or the goroutine holding metrics.mu
  WorkerCount, JobQueueSize, SchedulingFailures,
  JobCount, FailureCount,
  \* ---- QSpace
  values,         \* qs.values: id -> *QValue
  waiting,        \* qs.waiting: id -> list of channels
  chans,          \* every channel handed out by Await or Schedule
  nextPtr,        \* allocation counter for *QValue
  now,            \* the clock
  nextSweep,      \* when the cleanup ticker fires next
  spaceDone,      \* QSpace.Close has run: qs.done is closed, the maps are nil
  \* ---- history
  callLog,        \* the latest Schedule call: what it saw and did
  failedCircuitJobs, \* jobs naming the circuit whose outcome was an error
  lastOp,         \* the store or breaker call just made, if any
  jobLog,         \* per job id: the job, its future, its invocations
  \* ---- components used on their own
  retry,          \* Worker.executeWithRetry: the loop's position
  lb,             \* the LoadBalancer
  rl,             \* the RateLimiter
  children,       \* qs.children: id -> ids
  parents,        \* qs.parents: id -> ids
  ent,            \* an Entanglement, its lock and the goroutines using it
  cbc             \* cb.mu of one breaker and the goroutines calling it

vars == << cancelled, panicked, jobs, jobsClosed, workers, workersClosed,
           quitClosed, workerList, slotClosed, breakers, wpc, wjob, wres,
           mpc, mjob, mslot, spc, cpc, closePc, nCalls,
           metricsMu, WorkerCount, JobQueueSize, SchedulingFailures,
           values, waiting, chans, nextPtr, now, nextSweep,
           callLog, failedCircuitJobs, lastOp, spaceDone, wdeps, jobLog,
           lastScale, retry, lb, JobCount, FailureCount, rl, children,
           parents, ent, cbc >>

poolVars == << cancelled, panicked, jobs, jobsClosed, workers, workersClosed,
               quitClosed, workerList, slotClosed, wpc, wjob, wres,
               mpc, mjob, mslot, spc, cpc, closePc, nCalls,
               metricsMu, WorkerCount, JobQueueSize, SchedulingFailures,
               callLog, failedCircuitJobs, lastScale, JobCount,
               FailureCount >>

\* the other components
otherVars == << rl, children, parents, ent, cbc >>

spaceVars == << values, waiting, chans, nextPtr, now, nextSweep, spaceDone >>

WorkerIds == 1 .. (MinWorkers + 1)
Closers == 1 .. MaxCloseCalls
CircuitId == "c"

(* ------------------------------ QValue -------------------------------- *)

\* UncertaintyLevel in tenths: MinUncertainty = 0.0, MaxUncertainty = 1.0
MinUncertainty == 0
MaxUncertainty == 10

\* cleanupInterval: time.Minute, in clock units of 20 s
CleanupInterval == 3

\* the whole part of math.Log2(n), n >= 1
RECURSIVE Log2(_)
Log2(n) == IF n <= 1 THEN 0 ELSE 1 + Log2(n \div 2)

\* State{Value: v, Probability: 1.0}
State(v) == [Value |-> v]

\* calculateInitialUncertainty
\* math.Log2(len(states)) / 10.0 is, in tenths, Log2 of the length; only its
\* comparison with MaxUncertainty is ever used, which the whole part decides
calculateInitialUncertainty(states) ==
  IF Len(states) <= 1 THEN MinUncertainty ELSE Log2(Len(states))

\* NewQValue(value, states), then qv.TTL = ttl; ptr is the pointer's identity
NewQValue(ptr, value, states, ttl, t) ==
  [ptr |-> ptr, Value |-> value, Error |-> "nil", CreatedAt |-> t,
   TTL |-> ttl, Uncertainty |-> calculateInitialUncertainty(states)]

(* ------------------------------ channels ------------------------------ *)

\* make(chan *QValue, 1)
NewChan == [buf |-> << >>, closed |-> FALSE, sent |-> 0]

\* ch := make(chan *QValue, 1); ch <- qv; close(ch)
ResolvedChan(qv) == [buf |-> << qv >>, closed |-> TRUE, sent |-> 1]

\* select { case ch <- qv: default: } on a channel of capacity 1
CanSend(ch) == ~ch.closed /\ Len(ch.buf) < 1

Send(ch, qv) == [ch EXCEPT !.buf = Append(@, qv), !.sent = @ + 1]

(* ------------------------------- QSpace ------------------------------- *)

MapPut(m, k, v) == [x \in (DOMAIN m) \cup {k} |-> IF x = k THEN v ELSE m[x]]
MapDel(m, k) == [x \in (DOMAIN m) \ {k} |-> m[x]]

IndexOf(arr, c) == CHOOSE i \in 1 .. Len(arr) : arr[i] = c /\ \A j \in 1 .. (i - 1) : arr[j] # c

\* removeWaitingChannel: append(channels[:i], channels[i+1:]...) shifts the
\* shared backing array left in place; the ranged slice keeps its length
removeWaitingChannel(arr, c) ==
  IF \E i \in 1 .. Len(arr) : arr[i] = c
  THEN LET i == IndexOf(arr, c)
       IN [j \in 1 .. Len(arr) |-> IF j < i THEN arr[j]
                                   ELSE IF j < Len(arr) THEN arr[j + 1]
                                   ELSE arr[j]]
  ELSE arr

\* for _, ch := range channels { select { case ch <- qv: default: remove } }
\* from index i on; the result is the channels after the loop
RECURSIVE Notify(_, _, _, _)
Notify(arr, i, cs, qv) ==
  IF i > Len(arr) THEN cs
  ELSE IF CanSend(cs[arr[i]])
       THEN Notify(arr, i + 1, [cs EXCEPT ![arr[i]] = Send(@, qv)], qv)
       ELSE Notify(removeWaitingChannel(arr, arr[i]), i + 1, cs, qv)

\* a notification loop that stops after its first channel
NotifyFirstWaiter(id, cs, qv) ==
  IF id \in DOMAIN waiting /\ Len(waiting[id]) > 0
  THEN Notify(SubSeq(waiting[id], 1, 1), 1, cs, qv) ELSE cs

NotifyWaiters(id, cs, qv) ==
  IF id \in DOMAIN waiting THEN Notify(waiting[id], 1, cs, qv) ELSE cs

\* a store that leaves out delete(qs.waiting, id)
StoreValueKeepWaiting(id, qv) ==
  /\ values' = MapPut(values, id, qv)
  /\ chans' = NotifyWaiters(id, chans, qv)
  /\ waiting' = waiting
  /\ nextPtr' = nextPtr + 1

\* QSpace.Store / QSpace.StoreError with the value already built
StoreValue(id, qv) ==
  /\ values' = MapPut(values, id, qv)
  /\ chans' = NotifyWaiters(id, chans, qv)
  /\ waiting' = MapDel(waiting, id)
  /\ nextPtr' = nextPtr + 1

\* QSpace.Store(id, value, states, ttl)
Store(id, value, states, ttl) ==
  StoreValue(id, NewQValue(nextPtr, value, states, ttl, now))

\* QSpace.StoreError(id, err, ttl)
StoreError(id, err, ttl) ==
  StoreValue(id, [NewQValue(nextPtr, "nil", << State("nil") >>, ttl, now)
                    EXCEPT !.Error = err])

\* QSpace.Await: does the stored value resolve the new channel at once
AwaitResolves(id) ==
  id \in DOMAIN values /\ values[id].Uncertainty < MaxUncertainty

\* QSpace.Await(id); the new channel is chans'[Len(chans')]
Await(id) ==
  IF AwaitResolves(id)
  THEN /\ chans' = Append(chans, ResolvedChan(values[id]))
       /\ UNCHANGED waiting
  ELSE /\ chans' = Append(chans, NewChan)
       /\ waiting' = MapPut(waiting, id,
                        (IF id \in DOMAIN waiting THEN waiting[id] ELSE << >>)
                          \o << Len(chans) + 1 >>)

\* QSpace.Exists(id)
Exists(id) == id \in DOMAIN values

(* --------------------------- circuit breaker -------------------------- *)

\* NewCircuitBreaker / the literal in getCircuitBreaker
NewCircuitBreaker(maxFailures, resetTimeout, halfOpenMax) ==
  [state |-> "CLOSED", failureCount |-> 0, openTime |-> 0,
   halfOpenAttempts |-> 0, maxFailures |-> maxFailures,
   resetTimeout |-> resetTimeout, halfOpenMax |-> halfOpenMax]

\* a RecordFailure that reopens the breaker without restarting the timer
RecordFailureKeepOpenTime(cb, t) ==
  LET n == cb.failureCount + 1
  IN IF n >= cb.maxFailures /\ cb.state = "HALF_OPEN"
     THEN [cb EXCEPT !.failureCount = n, !.state = "OPEN"]
     ELSE IF n >= cb.maxFailures /\ cb.state = "CLOSED"
          THEN [cb EXCEPT !.failureCount = n, !.state = "OPEN",
                          !.openTime = t]
          ELSE [cb EXCEPT !.failureCount = n]

\* CircuitBreaker.RecordFailure at time t
RecordFailure(cb, t) ==
  LET n == cb.failureCount + 1
  IN IF n >= cb.maxFailures /\ cb.state \in {"HALF_OPEN", "CLOSED"}
     THEN [cb EXCEPT !.failureCount = n, !.state = "OPEN", !.openTime = t]
     ELSE [cb EXCEPT !.failureCount = n]

\* the earlier RecordSuccess (circuit.go), which leaves CLOSED untouched
RecordSuccessHalfOpenOnly(cb) ==
  IF cb.state = "HALF_OPEN"
  THEN IF cb.halfOpenAttempts + 1 >= cb.halfOpenMax
       THEN [cb EXCEPT !.state = "CLOSED", !.failureCount = 0,
                       !.halfOpenAttempts = 0]
       ELSE [cb EXCEPT !.halfOpenAttempts = @ + 1]
  ELSE cb

\* a RecordSuccess that closes the breaker only past halfOpenMax successes
RecordSuccessStrict(cb) ==
  IF cb.state = "HALF_OPEN"
  THEN IF cb.halfOpenAttempts + 1 > cb.halfOpenMax
       THEN [cb EXCEPT !.state = "CLOSED", !.failureCount = 0,
                       !.halfOpenAttempts = 0]
       ELSE [cb EXCEPT !.halfOpenAttempts = @ + 1]
  ELSE IF cb.state = "CLOSED"
       THEN [cb EXCEPT !.failureCount = 0]
       ELSE cb

\* CircuitBreaker.RecordSuccess
RecordSuccess(cb) ==
  IF cb.state = "HALF_OPEN"
  THEN IF cb.halfOpenAttempts + 1 >= cb.halfOpenMax
       THEN [cb EXCEPT !.state = "CLOSED", !.failureCount = 0,
                       !.halfOpenAttempts = 0]
       ELSE [cb EXCEPT !.halfOpenAttempts = @ + 1]
  ELSE IF cb.state = "CLOSED"
       THEN [cb EXCEPT !.failureCount = 0]
       ELSE cb

\* has resetTimeout passed: time.Since(cb.openTime) > cb.resetTimeout
ResetElapsed(cb, t) == t - cb.openTime > cb.resetTimeout

\* CircuitBreaker.Allow at time t: the answer
AllowResult(cb, t) ==
  CASE cb.state = "CLOSED" -> TRUE
    [] cb.state = "OPEN" -> ResetElapsed(cb, t)
    [] cb.state = "HALF_OPEN" -> cb.halfOpenAttempts < cb.halfOpenMax
    [] OTHER -> FALSE

\* an Allow that moves to HALF_OPEN without clearing the attempt counter
AllowStateKeepCounter(cb, t) ==
  IF cb.state = "OPEN" /\ ResetElapsed(cb, t)
  THEN [cb EXCEPT !.state = "HALF_OPEN"]
  ELSE cb

\* CircuitBreaker.Allow at time t: the breaker afterwards
AllowState(cb, t) ==
  IF cb.state = "OPEN" /\ ResetElapsed(cb, t)
  THEN [cb EXCEPT !.state = "HALF_OPEN", !.halfOpenAttempts = 0]
  ELSE cb

\* CircuitBreaker.Renormalize at time t
Renormalize(cb, t) ==
  IF cb.state = "OPEN" /\ ResetElapsed(cb, t)
  THEN [cb EXCEPT !.state = "HALF_OPEN", !.halfOpenAttempts = 0]
  ELSE cb

(* -------------------------------- jobs -------------------------------- *)

\* RetryPolicy{MaxAttempts: 3, ...}, the policy Schedule gives every job
DefaultMaxAttempts == 3

\* the attempts a client passes to WithRetry and to WithDependencyRetry
RetryAttempts == 2
DependencyRetryAttempts == 2

\* the invocation at which the callable "flaky" first succeeds
FlakySucceedsAt == 3

\* a nil *RetryPolicy, and &RetryPolicy{MaxAttempts: attempts}
NilRetryPolicy == [nil |-> TRUE, MaxAttempts |-> 0]
RetryPolicy(attempts) == [nil |-> FALSE, MaxAttempts |-> attempts]

NoJob ==
  [ID |-> 0, Fn |-> "nil", CircuitID |-> "", CircuitConfig |-> "nil",
   RetryPolicy |-> NilRetryPolicy, Dependencies |-> << >>,
   DependencyRetryPolicy |-> NilRetryPolicy]

\* Job{ID: id, Fn: fn, RetryPolicy: &RetryPolicy{MaxAttempts: 3}} in
\* Schedule; Fn names the callable: "ok" returns a value, "failure" returns
\* an error, "flaky" returns an error until its FlakySucceedsAt-th invocation
NewJob(id, fn) ==
  [ID |-> id, Fn |-> fn, CircuitID |-> "", CircuitConfig |-> "nil",
   RetryPolicy |-> RetryPolicy(DefaultMaxAttempts),
   Dependencies |-> << >>, DependencyRetryPolicy |-> NilRetryPolicy]

\* job.Fn() at its n-th invocation: "ok", or the error it returns
Call(fn, n) ==
  IF fn = "flaky"
  THEN IF n < FlakySucceedsAt THEN "failure" ELSE "ok"
  ELSE fn

\* WithRetry(attempts, strategy)
WithRetry(job, attempts) ==
  [job EXCEPT !.RetryPolicy = RetryPolicy(attempts)]

\* WithDependencies(dependencies)
WithDependencies(job, dependencies) ==
  [job EXCEPT !.Dependencies = dependencies]

\* WithDependencyRetry(attempts, strategy)
WithDependencyRetry(job, attempts) ==
  [job EXCEPT !.DependencyRetryPolicy = RetryPolicy(attempts)]

\* WithCircuitBreaker(id, maxFailures, resetTimeout): sets j.CircuitID only
WithCircuitBreaker(job, id) == [job EXCEPT !.CircuitID = id]

JobOptions == {"none", "WithCircuitBreaker"}

\* the options of a client that uses retries and dependencies; a job with
\* dependencies names the job submitted just before it, and the first job
\* submitted so names an id that no job ever has
DependencyOptions ==
  {"none", "WithRetry", "WithDependencies", "WithDependenciesAndRetry"}

\* opt(&job)
ApplyOption(job, opt) ==
  CASE opt = "WithCircuitBreaker" -> WithCircuitBreaker(job, CircuitId)
    [] opt = "WithRetry" -> WithRetry(job, RetryAttempts)
    [] opt = "WithDependencies" -> WithDependencies(job, << job.ID - 1 >>)
    [] opt = "WithDependenciesAndRetry" ->
         WithDependencyRetry(WithDependencies(job, << job.ID - 1 >>),
                             DependencyRetryAttempts)
    [] OTHER -> job

\* Q.getCircuitBreaker: "nil", or the circuit id whose breaker it returns
getCircuitBreaker(job) ==
  IF job.CircuitID = "" \/ job.CircuitConfig = "nil" THEN "nil" ELSE job.CircuitID

\* Q.getCircuitBreaker: q.breakers afterwards (the breaker is made on first use)
getCircuitBreakerMap(job) ==
  IF getCircuitBreaker(job) = "nil" \/ job.CircuitID \in DOMAIN breakers
  THEN breakers
  ELSE MapPut(breakers, job.CircuitID,
              NewCircuitBreaker(job.CircuitConfig.MaxFailures,
                                job.CircuitConfig.ResetTimeout,
                                job.CircuitConfig.HalfOpenMax))

(* ------------------------------ the pool ------------------------------ *)

Alive == panicked = "none"

\* the id the k-th Schedule call submits
JobID(k) == k

\* the dependency loop of a worker: the dependency it is at, and the attempt
NoDeps == [i |-> 1, attempt |-> 0]

\* what jobLog keeps of a job Schedule has queued: the job, the channel
\* Schedule returned for it, how often its callable was invoked, whether
\* its dependency check gave up, and on which dependency
NewLog(job, future) ==
  [job |-> job, future |-> future, invoked |-> 0, depFailed |-> FALSE,
   dep |-> 0]

\* callLog before any call; parked: the call is blocked in its select on
\* a full queue; wasParked: the call that returned had been blocked
NoLog ==
  [circ |-> FALSE, seen |-> 0, denied |-> FALSE, enq |-> FALSE,
   parked |-> FALSE, wasParked |-> FALSE]
NoOp == [op |-> "none", id |-> 0, before |-> << >>]

\* no retry loop is running; no load balancer was made
NoRetry == [pc |-> "none"]
NoLB == [activeWorkers |-> 0]
NoRL == [tokens |-> 0]
NoEnt == [stateLedger |-> << >>]
NoCallers == [mu |-> 0]

\* the components no goroutine of the pool uses
Idle ==
  /\ rl = NoRL /\ children = << >> /\ parents = << >> /\ ent = NoEnt
  /\ cbc = NoCallers

\* the state NewQ(ctx, minWorkers, MaxWorkers, config) returns: minWorkers
\* workers started, manage, collectMetrics and the scaler running;
\* q.breakers is empty
NewQ(minWorkers) ==
  /\ cancelled = FALSE /\ panicked = "none"
  /\ jobs = << >> /\ jobsClosed = FALSE
  /\ workers = << >> /\ workersClosed = FALSE
  /\ quitClosed = FALSE
  /\ workerList = [i \in 1 .. minWorkers |-> i]
  /\ slotClosed = {}
  /\ wpc = [w \in WorkerIds |-> IF w <= minWorkers THEN "check" ELSE "none"]
  /\ wjob = [w \in WorkerIds |-> NoJob]
  /\ wres = [w \in WorkerIds |-> "nil"]
  /\ wdeps = [w \in WorkerIds |-> NoDeps]
  /\ mpc = "idle" /\ mjob = NoJob /\ mslot = 0
  /\ spc = "run" /\ cpc = "run" /\ lastScale = 0
  /\ closePc = [c \in Closers |-> "idle"]
  /\ nCalls = 0
  /\ metricsMu = "free"
  /\ WorkerCount = minWorkers /\ JobQueueSize = 0 /\ SchedulingFailures = 0
  /\ JobCount = 0 /\ FailureCount = 0
  /\ values = << >> /\ waiting = << >> /\ chans = << >> /\ nextPtr = 1
  /\ now = 0 /\ nextSweep = CleanupInterval /\ spaceDone = FALSE
  /\ callLog = NoLog
  /\ failedCircuitJobs = 0
  /\ jobLog = << >>

\* the pool of NewQ(ctx, MinWorkers, MaxWorkers, config)
InitPool == NewQ(MinWorkers)

Init ==
  /\ InitPool /\ breakers = << >> /\ lastOp = NoOp
  /\ retry = NoRetry /\ lb = NoLB /\ Idle

Panic(what) ==
  /\ panicked' = what
  /\ UNCHANGED << cancelled, jobs, jobsClosed, workers, workersClosed,
                  quitClosed, workerList, slotClosed, breakers, wpc, wjob,
                  wres, mpc, mjob, mslot, spc, cpc, closePc, nCalls, metricsMu, WorkerCount, JobQueueSize,
                  SchedulingFailures, values, waiting, chans, nextPtr, now,
                  nextSweep, callLog, failedCircuitJobs, lastOp, spaceDone,
                  wdeps, jobLog, lastScale, retry, lb, JobCount,
                  FailureCount, otherVars >>

(* ---- Q.Schedule ---- *)

\* Config.SchedulingTimeout as the client of the full-queue specification
\* sets it, and the default of getSchedulingTimeout, in seconds
SchedulingTimeout == 0
DefaultSchedulingTimeout == 5

\* Q.getSchedulingTimeout
getSchedulingTimeout(configured) ==
  IF configured > 0 THEN configured ELSE DefaultSchedulingTimeout

\* an error future that is also put in the store under the job's id
ErrorFutureStored(err) ==
  LET qv == [NewQValue(0, "nil", << >>, 0, now) EXCEPT !.Error = err]
  IN /\ chans' = Append(chans, ResolvedChan(qv))
     /\ values' = MapPut(values, JobID(nCalls + 1), qv)
     /\ UNCHANGED << waiting, nextPtr >>

\* ch := make(chan *QValue, 1); ch <- &QValue{Error: err}; close(ch): the
\* channel is the call's own and the store is not involved
ErrorFuture(err) ==
  /\ chans' = Append(chans,
                ResolvedChan([NewQValue(0, "nil", << >>, 0, now)
                                EXCEPT !.Error = err]))
  /\ UNCHANGED << values, waiting, nextPtr >>

\* the job Schedule builds for its k-th call
ScheduledJob(k, fn, opt) == ApplyOption(NewJob(JobID(k), fn), opt)

\* the circuit-breaker check: does Schedule answer "circuit open"
ScheduleDenies(job) ==
  /\ job.CircuitID # ""
  /\ getCircuitBreaker(job) # "nil"
  /\ ~AllowResult(getCircuitBreakerMap(job)[getCircuitBreaker(job)], now)

\* q.breakers after the circuit-breaker check
ScheduleBreakers(job) ==
  IF job.CircuitID # "" /\ getCircuitBreaker(job) # "nil"
  THEN [getCircuitBreakerMap(job) EXCEPT ![getCircuitBreaker(job)] =
          AllowState(@, now)]
  ELSE breakers

\* Schedule where the select takes "case q.jobs <- job" and the call returns
\* q.space.Await(id); a denying breaker answers before the select is reached
\* with a closed channel holding the error
ScheduleJob(job, maxCalls) ==
  /\ Alive /\ nCalls < maxCalls
  /\ IF ScheduleDenies(job)
        THEN /\ chans' = Append(chans,
                   ResolvedChan([NewQValue(0, "nil", << >>, 0, now)
                                   EXCEPT !.Error = "circuit open"]))
             /\ breakers' = ScheduleBreakers(job)
             /\ nCalls' = nCalls + 1
             /\ callLog' = [circ |-> TRUE, seen |-> failedCircuitJobs,
                            denied |-> TRUE, enq |-> FALSE,
                            parked |-> FALSE, wasParked |-> FALSE]
             /\ UNCHANGED << cancelled, panicked, jobs, jobsClosed, workers,
                             workersClosed, quitClosed, workerList,
                             slotClosed, wpc, wjob, wres, mpc, mjob, mslot,
                             spc, cpc, closePc, metricsMu, WorkerCount,
                             JobQueueSize, SchedulingFailures, values,
                             waiting, nextPtr, now, nextSweep,
                             failedCircuitJobs, lastOp, spaceDone,
                             wdeps, jobLog, lastScale, retry, lb,
                             JobCount, FailureCount, otherVars >>
        ELSE IF jobsClosed
        THEN Panic("send on closed channel")
        ELSE /\ Len(jobs) < JobsCap
             /\ jobs' = Append(jobs, job)
             /\ Await(job.ID)
             /\ breakers' = ScheduleBreakers(job)
             /\ nCalls' = nCalls + 1
             /\ callLog' = [circ |-> job.CircuitID # "",
                            seen |-> failedCircuitJobs,
                            denied |-> FALSE, enq |-> TRUE,
                            parked |-> FALSE, wasParked |-> callLog.parked]
             /\ jobLog' = MapPut(jobLog, job.ID,
                                 NewLog(job, Len(chans) + 1))
             /\ UNCHANGED << cancelled, panicked, jobsClosed, workers,
                             workersClosed, quitClosed, workerList,
                             slotClosed, wpc, wjob, wres, mpc, mjob, mslot,
                             spc, cpc, closePc, metricsMu, WorkerCount,
                             JobQueueSize, SchedulingFailures, values,
                             nextPtr, now, nextSweep, failedCircuitJobs,
                             lastOp, spaceDone, wdeps, lastScale, retry,
                             lb, JobCount, FailureCount, otherVars >>

\* Schedule(id, fn, opts...) with the id of the client's next call
ScheduleSend(fn, opt, maxCalls) ==
  ScheduleJob(ScheduledJob(nCalls + 1, fn, opt), maxCalls)

\* Schedule where the select takes "case <-ctx.Done()": the pool context is
\* cancelled, or the scheduling timeout ran out while the queue stayed full.
\* The call makes a closed channel holding the error, takes metrics.mu to
\* count the failure and returns the channel.
ScheduleCtxDone(fn, opt, maxCalls) ==
  /\ Alive /\ nCalls < maxCalls
  /\ cancelled \/ (~jobsClosed /\ Len(jobs) = JobsCap)
  /\ metricsMu = "free"
  /\ LET job == ScheduledJob(nCalls + 1, fn, opt)
     IN /\ ~ScheduleDenies(job)
        /\ breakers' = ScheduleBreakers(job)
        /\ callLog' = [circ |-> job.CircuitID # "", seen |-> failedCircuitJobs,
                       denied |-> FALSE, enq |-> FALSE,
                       parked |-> FALSE, wasParked |-> callLog.parked]
  /\ ErrorFuture("job scheduling timeout")
  /\ SchedulingFailures' = SchedulingFailures + 1
  /\ nCalls' = nCalls + 1
  /\ UNCHANGED << cancelled, panicked, jobs, jobsClosed, workers,
                  workersClosed, quitClosed, workerList, slotClosed, wpc,
                  wjob, wres, mpc, mjob, mslot, spc, cpc, closePc, metricsMu,
                  WorkerCount, JobQueueSize, now,
                  nextSweep, failedCircuitJobs, lastOp, spaceDone,
                  wdeps, jobLog, lastScale, retry, lb, JobCount,
                  FailureCount, otherVars >>

\* Schedule blocked in its select: the queue is full and the timeout the
\* configuration yields has not run out, so neither case is ready. Taken
\* for a job that names no circuit.
ScheduleWait(fn, opt, maxCalls) ==
  /\ Alive /\ nCalls < maxCalls
  /\ ~cancelled /\ ~jobsClosed /\ Len(jobs) = JobsCap
  /\ getSchedulingTimeout(SchedulingTimeout) > 0
  /\ ~callLog.parked
  /\ ScheduledJob(nCalls + 1, fn, opt).CircuitID = ""
  /\ callLog' = [circ |-> FALSE, seen |-> failedCircuitJobs,
                 denied |-> FALSE, enq |-> FALSE,
                 parked |-> TRUE, wasParked |-> FALSE]
  /\ UNCHANGED << cancelled, panicked, jobs, jobsClosed, workers,
                  workersClosed, quitClosed, workerList, slotClosed,
                  breakers, wpc, wjob, wres, mpc, mjob, mslot, spc, cpc,
                  closePc, nCalls, metricsMu, WorkerCount, JobQueueSize,
                  SchedulingFailures, values, waiting, chans, nextPtr, now,
                  nextSweep, failedCircuitJobs, lastOp, spaceDone,
                  wdeps, jobLog, lastScale, retry, lb, JobCount,
                  FailureCount, otherVars >>

(* ---- Q.manage ---- *)

\* case <-q.ctx.Done(): return, at any of the three selects
ManageExit ==
  /\ Alive /\ mpc \in {"idle", "job", "slot"} /\ cancelled
  /\ mpc' = "exited"
  /\ UNCHANGED << cancelled, panicked, jobs, jobsClosed, workers,
                  workersClosed, quitClosed, workerList, slotClosed,
                  breakers, wpc, wjob, wres, mjob, mslot, spc, cpc, closePc,
                  nCalls, metricsMu, WorkerCount,
                  JobQueueSize, SchedulingFailures, values, waiting, chans,
                  nextPtr, now, nextSweep, callLog, failedCircuitJobs,
                  lastOp, spaceDone, wdeps, jobLog, lastScale, retry, lb,
                  JobCount, FailureCount, otherVars >>

\* case job := <-q.jobs
ManageTakeJob ==
  /\ Alive /\ mpc = "idle" /\ Len(jobs) > 0
  /\ mjob' = Head(jobs) /\ jobs' = Tail(jobs)
  /\ mpc' = "job"
  /\ UNCHANGED << cancelled, panicked, jobsClosed, workers, workersClosed,
                  quitClosed, workerList, slotClosed, breakers, wpc, wjob,
                  wres, mslot, spc, cpc, closePc, nCalls,
                  metricsMu, WorkerCount, JobQueueSize, SchedulingFailures,
                  values, waiting, chans, nextPtr, now, nextSweep, callLog,
                  failedCircuitJobs, lastOp, spaceDone, wdeps, jobLog,
                  lastScale, retry, lb, JobCount, FailureCount, otherVars >>

\* case workerChan := <-q.workers
ManageTakeSlot ==
  /\ Alive /\ mpc = "job" /\ Len(workers) > 0
  /\ mslot' = Head(workers) /\ workers' = Tail(workers)
  /\ mpc' = "slot"
  /\ UNCHANGED << cancelled, panicked, jobs, jobsClosed, workersClosed,
                  quitClosed, workerList, slotClosed, breakers, wpc, wjob,
                  wres, mjob, spc, cpc, closePc, nCalls,
                  metricsMu, WorkerCount, JobQueueSize, SchedulingFailures,
                  values, waiting, chans, nextPtr, now, nextSweep, callLog,
                  failedCircuitJobs, lastOp, spaceDone, wdeps, jobLog,
                  lastScale, retry, lb, JobCount, FailureCount, otherVars >>

\* case workerChan <- job, received by the worker in its select
ManageHandOff ==
  /\ Alive /\ mpc = "slot"
  /\ IF mslot \in slotClosed
     THEN Panic("send on closed channel")
     ELSE /\ wpc[mslot] = "wait"
          /\ wpc' = [wpc EXCEPT ![mslot] = "exec"]
          /\ wjob' = [wjob EXCEPT ![mslot] = mjob]
          /\ mpc' = "idle" /\ mjob' = NoJob /\ mslot' = 0
          /\ UNCHANGED << cancelled, panicked, jobs, jobsClosed, workers,
                          workersClosed, quitClosed, workerList, slotClosed,
                          breakers, wres, spc, cpc, closePc, nCalls, metricsMu, WorkerCount, JobQueueSize,
                          SchedulingFailures, values, waiting, chans,
                          nextPtr, now, nextSweep, callLog,
                          failedCircuitJobs, lastOp, spaceDone,
                          wdeps, jobLog, lastScale, retry, lb, JobCount,
                          FailureCount, otherVars >>

\* case <-time.After(q.getSchedulingTimeout()): no worker became ready
ManageTimeout ==
  /\ Alive /\ mpc = "job" /\ Len(workers) = 0
  /\ Store(mjob.ID, "nil", << State("no available workers") >>, 0)
  /\ mpc' = "idle" /\ mjob' = NoJob
  /\ UNCHANGED << cancelled, panicked, jobs, jobsClosed, workers,
                  workersClosed, quitClosed, workerList, slotClosed,
                  breakers, wpc, wjob, wres, mslot, spc, cpc, closePc,
                  nCalls, metricsMu, WorkerCount,
                  JobQueueSize, SchedulingFailures, now, nextSweep, callLog,
                  failedCircuitJobs, lastOp, spaceDone, wdeps, jobLog,
                  lastScale, retry, lb, JobCount, FailureCount, otherVars >>

(* ---- Worker.run ---- *)

\* select { case <-w.pool.ctx.Done(): return; default: }
WorkerCheck(w) ==
  /\ Alive /\ wpc[w] = "check"
  /\ wpc' = [wpc EXCEPT ![w] = IF cancelled THEN "exited" ELSE "register"]
  /\ UNCHANGED << cancelled, panicked, jobs, jobsClosed, workers,
                  workersClosed, quitClosed, workerList, slotClosed,
                  breakers, wjob, wres, mpc, mjob, mslot, spc, cpc, closePc,
                  nCalls, metricsMu, WorkerCount,
                  JobQueueSize, SchedulingFailures, values, waiting, chans,
                  nextPtr, now, nextSweep, callLog, failedCircuitJobs,
                  lastOp, spaceDone, wdeps, jobLog, lastScale, retry, lb,
                  JobCount, FailureCount, otherVars >>

\* w.pool.workers <- jobChan, a blocking send
WorkerRegister(w) ==
  /\ Alive /\ wpc[w] = "register"
  /\ IF workersClosed
     THEN Panic("send on closed channel")
     ELSE /\ Len(workers) < WorkersCap
          /\ workers' = Append(workers, w)
          /\ wpc' = [wpc EXCEPT ![w] = "wait"]
          /\ UNCHANGED << cancelled, panicked, jobs, jobsClosed,
                          workersClosed, quitClosed, workerList, slotClosed,
                          breakers, wjob, wres, mpc, mjob, mslot, spc, cpc,
                          closePc, nCalls, metricsMu,
                          WorkerCount, JobQueueSize, SchedulingFailures,
                          values, waiting, chans, nextPtr, now, nextSweep,
                          callLog, failedCircuitJobs, lastOp, spaceDone,
                          wdeps, jobLog, lastScale, retry, lb, JobCount,
                          FailureCount, otherVars >>

\* case <-w.pool.ctx.Done(): return, or the job channel is closed
WorkerWaitExit(w) ==
  /\ Alive /\ wpc[w] = "wait"
  /\ cancelled \/ w \in slotClosed
  /\ wpc' = [wpc EXCEPT ![w] = "exited"]
  /\ UNCHANGED << cancelled, panicked, jobs, jobsClosed, workers,
                  workersClosed, quitClosed, workerList, slotClosed,
                  breakers, wjob, wres, mpc, mjob, mslot, spc, cpc, closePc,
                  nCalls, metricsMu, WorkerCount,
                  JobQueueSize, SchedulingFailures, values, waiting, chans,
                  nextPtr, now, nextSweep, callLog, failedCircuitJobs,
                  lastOp, spaceDone, wdeps, jobLog, lastScale, retry, lb,
                  JobCount, FailureCount, otherVars >>

\* fmt.Errorf("dependency %s failed after %d attempts", depID, maxAttempts)
DependencyFailed(depID) == "dependency " \o ToString(depID) \o " failed"

\* checkSingleDependency: maxAttempts
DependencyMaxAttempts(job) ==
  IF job.DependencyRetryPolicy.nil THEN 1
  ELSE job.DependencyRetryPolicy.MaxAttempts

\* one attempt of an older checkSingleDependency: no Exists test, and a
\* receive on the Await channel with no timeout
AttemptOutcomeNoTimeout(depID) ==
  IF AwaitResolves(depID)
  THEN IF values[depID].Error = "nil" THEN "met" ELSE "failed"
  ELSE "blocked"

\* an attempt that takes any stored dependency as met
AttemptOutcomeAnyOutcome(depID) ==
  IF ~Exists(depID) THEN "failed" ELSE "met"

\* one attempt of checkSingleDependency: the dependency must exist; then
\* the Await channel yields a value with a nil Error, or a value with an
\* Error, or nothing within the second the select waits
AttemptOutcome(depID) ==
  IF ~Exists(depID) THEN "failed"
  ELSE IF AwaitResolves(depID)
       THEN IF values[depID].Error = "nil" THEN "met" ELSE "failed"
       ELSE "failed"

\* processJobWithTimeout, the dependency loop: one attempt of
\* checkSingleDependency on the dependency the worker is at. A met
\* dependency moves the loop on; a failed attempt is repeated after a sleep
\* while attempts remain; after the last one the job fails without its
\* callable being run (RecordJobExecution takes metrics.mu)
WorkerCheckDependency(w) ==
  /\ Alive /\ wpc[w] = "exec"
  /\ wdeps[w].i <= Len(wjob[w].Dependencies)
  /\ LET depID == wjob[w].Dependencies[wdeps[w].i]
         out == AttemptOutcome(depID)
         last == wdeps[w].attempt >= DependencyMaxAttempts(wjob[w]) - 1
     IN /\ out # "blocked"
        /\ IF Exists(depID)
           THEN Await(depID)
           ELSE UNCHANGED << chans, waiting >>
        /\ IF out = "met"
           THEN /\ wdeps' = [wdeps EXCEPT ![w] = [i |-> @.i + 1,
                                                  attempt |-> 0]]
                /\ UNCHANGED << wpc, wres, jobLog >>
           ELSE IF ~last
           THEN /\ wdeps' = [wdeps EXCEPT ![w].attempt = @ + 1]
                /\ UNCHANGED << wpc, wres, jobLog >>
           ELSE /\ metricsMu = "free"
                /\ wres' = [wres EXCEPT ![w] = DependencyFailed(depID)]
                /\ wpc' = [wpc EXCEPT ![w] = "store"]
                /\ jobLog' = [jobLog EXCEPT ![wjob[w].ID].depFailed = TRUE,
                                            ![wjob[w].ID].dep = depID]
                /\ UNCHANGED wdeps
  /\ UNCHANGED << cancelled, panicked, jobs, jobsClosed, workers,
                  workersClosed, quitClosed, workerList, slotClosed,
                  breakers, wjob, mpc, mjob, mslot, spc, cpc, closePc,
                  nCalls, metricsMu, WorkerCount, JobQueueSize,
                  SchedulingFailures, values, nextPtr, now, nextSweep,
                  callLog, failedCircuitJobs, lastOp, spaceDone,
                  lastScale, retry, lb, JobCount, FailureCount, otherVars >>

\* processJobWithTimeout once every dependency is met: the callable is
\* started, and it returns (done) or the context is cancelled first; both
\* branches record under metrics.mu
WorkerProcessJob(w, branch) ==
  /\ Alive /\ wpc[w] = "exec" /\ metricsMu = "free"
  /\ wdeps[w].i > Len(wjob[w].Dependencies)
  /\ branch = "ctx" => cancelled
  /\ jobLog' = [jobLog EXCEPT ![wjob[w].ID].invoked = @ + 1]
  /\ wres' = [wres EXCEPT ![w] =
               IF branch = "ctx" THEN "timed out"
               ELSE Call(wjob[w].Fn, jobLog[wjob[w].ID].invoked + 1)]
  /\ wpc' = [wpc EXCEPT ![w] = "store"]
  /\ UNCHANGED << cancelled, panicked, jobs, jobsClosed, workers,
                  workersClosed, quitClosed, workerList, slotClosed,
                  breakers, wjob, mpc, mjob, mslot, spc, cpc, closePc,
                  nCalls, metricsMu, WorkerCount,
                  JobQueueSize, SchedulingFailures, values, waiting, chans,
                  nextPtr, now, nextSweep, callLog, failedCircuitJobs,
                  lastOp, spaceDone, wdeps, lastScale, retry, lb,
                  JobCount, FailureCount, otherVars >>

\* m.RecordJobSuccess(latency)
RecordJobSuccess ==
  JobCount' = JobCount + 1 /\ UNCHANGED FailureCount

\* m.RecordJobFailure()
RecordJobFailure ==
  FailureCount' = FailureCount + 1 /\ UNCHANGED JobCount

\* RecordJobFailure + StoreError, or RecordJobSuccess + Store
WorkerStoreResult(w) ==
  /\ Alive /\ wpc[w] = "store" /\ metricsMu = "free"
  /\ IF wres[w] # "ok"
     THEN StoreError(wjob[w].ID, wres[w], 0)
     ELSE Store(wjob[w].ID, "result", << State("result") >>, 0)
  /\ IF wres[w] # "ok" THEN RecordJobFailure ELSE RecordJobSuccess
  /\ failedCircuitJobs' = IF wres[w] # "ok" /\ wjob[w].CircuitID # ""
                          THEN failedCircuitJobs + 1 ELSE failedCircuitJobs
  /\ wpc' = [wpc EXCEPT ![w] = "check"]
  /\ wjob' = [wjob EXCEPT ![w] = NoJob]
  /\ wres' = [wres EXCEPT ![w] = "nil"]
  /\ wdeps' = [wdeps EXCEPT ![w] = NoDeps]
  /\ UNCHANGED << cancelled, panicked, jobs, jobsClosed, workers,
                  workersClosed, quitClosed, workerList, slotClosed,
                  breakers, mpc, mjob, mslot, spc, cpc, closePc, nCalls,
                  metricsMu, WorkerCount, JobQueueSize, SchedulingFailures,
                  now, nextSweep, callLog, lastOp, spaceDone, jobLog,
                  lastScale, retry, lb, otherVars >>

(* ---- Q.collectMetrics ---- *)

CollectTick ==
  /\ Alive /\ cpc = "run" /\ metricsMu = "free"
  /\ JobQueueSize' = Len(jobs)
  /\ UNCHANGED << cancelled, panicked, jobs, jobsClosed, workers,
                  workersClosed, quitClosed, workerList, slotClosed,
                  breakers, wpc, wjob, wres, mpc, mjob, mslot, spc, cpc,
                  closePc, nCalls, metricsMu, WorkerCount,
                  SchedulingFailures, values, waiting, chans, nextPtr, now,
                  nextSweep, callLog, failedCircuitJobs, lastOp, spaceDone,
                  wdeps, jobLog, lastScale, retry, lb, JobCount,
                  FailureCount, otherVars >>

CollectExit ==
  /\ Alive /\ cpc = "run" /\ cancelled
  /\ cpc' = "exited"
  /\ UNCHANGED << cancelled, panicked, jobs, jobsClosed, workers,
                  workersClosed, quitClosed, workerList, slotClosed,
                  breakers, wpc, wjob, wres, mpc, mjob, mslot, spc, closePc,
                  nCalls, metricsMu, WorkerCount,
                  JobQueueSize, SchedulingFailures, values, waiting, chans,
                  nextPtr, now, nextSweep, callLog, failedCircuitJobs,
                  lastOp, spaceDone, wdeps, jobLog, lastScale, retry, lb,
                  JobCount, FailureCount, otherVars >>

(* ---- Scaler ---- *)

\* the id of the next Worker startWorker makes
NewWorkerId == Cardinality({w \in WorkerIds : wpc[w] # "none"}) + 1

\* a scaleDown that empties q.workerList whatever count is
scaleDownAll(count) == Len(workerList)

\* Scaler.scaleDown(count): how many workers leave q.workerList
scaleDownRemoved(count) ==
  Min(Max(count, 0), Len(workerList))

\* Scaler.evaluate once the cooldown test has passed. It holds metrics.mu
\* throughout. scaleUp calls startWorker, which appends the worker and
\* then locks metrics.mu again: the scaler goroutine stops there for good.
\* scaleDown drops the last workers of q.workerList and calls their cancel
\* function when it is not nil; startWorker leaves it nil, and Worker.run
\* watches the pool's context only, so the workers themselves are untouched.
\* minWorkers and maxWorkers are the scaler's fields.
evaluateWith(minWorkers, maxWorkers) ==
  LET W == IF WorkerCount = 0 THEN 1 ELSE WorkerCount
      Q == JobQueueSize
      up == Q > ScaleUpThreshold * W /\ W < maxWorkers
      down == Q < ScaleDownThreshold * W /\ W > minWorkers
      toAdd == Min(maxWorkers - W, CeilDiv(Q, TargetLoad))
      toAdd2 == Min(maxWorkers - W, Max(1, toAdd))
      needed == Max(CeilDiv(Q, TargetLoad), minWorkers)
      toRemove == Min(W - minWorkers, Max(1, (W - needed) \div 2))
      n == scaleDownRemoved(toRemove)
  IN IF up /\ toAdd > 0 /\ toAdd2 > 0
     THEN /\ workerList' = Append(workerList, NewWorkerId)
          /\ wpc' = [wpc EXCEPT ![NewWorkerId] = "created"]
          /\ WorkerCount' = W
          /\ metricsMu' = "scaler"
          /\ spc' = "blocked"
          /\ UNCHANGED lastScale
     ELSE /\ IF ~up /\ down /\ toRemove > 0
             THEN /\ workerList' = SubSeq(workerList, 1, Len(workerList) - n)
                  /\ WorkerCount' = W - n
                  /\ lastScale' = now
             ELSE /\ WorkerCount' = W
                  /\ UNCHANGED << workerList, lastScale >>
          /\ UNCHANGED << wpc, metricsMu, spc >>

\* the evaluate of the scaler NewQ made: NewScaler(q, minWorkers, maxWorkers, ..)
evaluate == evaluateWith(MinWorkers, MaxWorkers)

\* case <-ticker.C: s.evaluate(), on the pool that keeps no clock: the ticker
\* fires a second after NewScaler set lastScale, later than the cooldown
ScalerEvaluate ==
  /\ Alive /\ spc = "run" /\ metricsMu = "free"
  /\ evaluate
  /\ UNCHANGED << cancelled, panicked, jobs, jobsClosed, workers,
                  workersClosed, quitClosed, slotClosed, breakers, wjob,
                  wres, mpc, mjob, mslot, cpc, closePc, nCalls, JobQueueSize, SchedulingFailures, values, waiting,
                  chans, nextPtr, now, nextSweep, callLog, failedCircuitJobs,
                  lastOp, spaceDone, wdeps, jobLog, retry, lb, JobCount,
                  FailureCount, otherVars >>

\* case <-s.pool.ctx.Done(): return
ScalerExit ==
  /\ Alive /\ spc = "run" /\ cancelled
  /\ spc' = "exited"
  /\ UNCHANGED << cancelled, panicked, jobs, jobsClosed, workers,
                  workersClosed, quitClosed, workerList, slotClosed,
                  breakers, wpc, wjob, wres, mpc, mjob, mslot, cpc, closePc,
                  nCalls, metricsMu, WorkerCount,
                  JobQueueSize, SchedulingFailures, values, waiting, chans,
                  nextPtr, now, nextSweep, callLog, failedCircuitJobs,
                  lastOp, spaceDone, wdeps, jobLog, lastScale, retry, lb,
                  JobCount, FailureCount, otherVars >>

(* ---- Q.Close ---- *)

\* q.wg is zero: manage, collectMetrics, the scaler and every started worker
\* have returned
WgDone ==
  /\ mpc = "exited" /\ cpc = "exited" /\ spc = "exited"
  /\ \A w \in WorkerIds : wpc[w] \in {"none", "created", "exited"}

\* q.cancel()
CloseCancel(c) ==
  /\ Alive /\ closePc[c] = "idle"
  /\ \A d \in Closers : d < c => closePc[d] = "done"
  /\ cancelled' = TRUE
  /\ closePc' = [closePc EXCEPT ![c] = "wait"]
  /\ UNCHANGED << panicked, jobs, jobsClosed, workers, workersClosed,
                  quitClosed, workerList, slotClosed, breakers, wpc, wjob,
                  wres, mpc, mjob, mslot, spc, cpc, nCalls,
                  metricsMu, WorkerCount, JobQueueSize, SchedulingFailures,
                  values, waiting, chans, nextPtr, now, nextSweep, callLog,
                  failedCircuitJobs, lastOp, spaceDone, wdeps, jobLog,
                  lastScale, retry, lb, JobCount, FailureCount, otherVars >>

\* q.wg.Wait()
CloseWait(c) ==
  /\ Alive /\ closePc[c] = "wait" /\ WgDone
  /\ closePc' = [closePc EXCEPT ![c] = "workers"]
  /\ UNCHANGED << cancelled, panicked, jobs, jobsClosed, workers,
                  workersClosed, quitClosed, workerList, slotClosed,
                  breakers, wpc, wjob, wres, mpc, mjob, mslot, spc, cpc,
                  nCalls, metricsMu, WorkerCount,
                  JobQueueSize, SchedulingFailures, values, waiting, chans,
                  nextPtr, now, nextSweep, callLog, failedCircuitJobs,
                  lastOp, spaceDone, wdeps, jobLog, lastScale, retry, lb,
                  JobCount, FailureCount, otherVars >>

\* for _, worker := range q.workerList { close(worker.jobs) }; q.workerList = nil
CloseWorkerSlots(c) ==
  /\ Alive /\ closePc[c] = "workers"
  /\ IF \E i \in 1 .. Len(workerList) : workerList[i] \in slotClosed
     THEN Panic("close of closed channel")
     ELSE /\ slotClosed' = slotClosed \cup {workerList[i] : i \in 1 .. Len(workerList)}
          /\ workerList' = << >>
          /\ closePc' = [closePc EXCEPT ![c] = "quit"]
          /\ UNCHANGED << cancelled, panicked, jobs, jobsClosed, workers,
                          workersClosed, quitClosed, breakers, wpc, wjob,
                          wres, mpc, mjob, mslot, spc, cpc, nCalls, metricsMu, WorkerCount, JobQueueSize,
                          SchedulingFailures, values, waiting, chans,
                          nextPtr, now, nextSweep, callLog,
                          failedCircuitJobs, lastOp, spaceDone,
                          wdeps, jobLog, lastScale, retry, lb, JobCount,
                          FailureCount, otherVars >>

\* close(q.quit)
CloseQuit(c) ==
  /\ Alive /\ closePc[c] = "quit"
  /\ IF quitClosed
     THEN Panic("close of closed channel")
     ELSE /\ quitClosed' = TRUE
          /\ closePc' = [closePc EXCEPT ![c] = "jobs"]
          /\ UNCHANGED << cancelled, panicked, jobs, jobsClosed, workers,
                          workersClosed, workerList, slotClosed, breakers,
                          wpc, wjob, wres, mpc, mjob, mslot, spc, cpc,
                          nCalls, metricsMu, WorkerCount,
                          JobQueueSize, SchedulingFailures, values, waiting,
                          chans, nextPtr, now, nextSweep, callLog,
                          failedCircuitJobs, lastOp, spaceDone,
                          wdeps, jobLog, lastScale, retry, lb, JobCount,
                          FailureCount, otherVars >>

\* close(q.jobs)
CloseJobs(c) ==
  /\ Alive /\ closePc[c] = "jobs"
  /\ IF jobsClosed
     THEN Panic("close of closed channel")
     ELSE /\ jobsClosed' = TRUE
          /\ closePc' = [closePc EXCEPT ![c] = "ready"]
          /\ UNCHANGED << cancelled, panicked, jobs, workers, workersClosed,
                          quitClosed, workerList, slotClosed, breakers, wpc,
                          wjob, wres, mpc, mjob, mslot, spc, cpc, nCalls, metricsMu, WorkerCount,
                          JobQueueSize, SchedulingFailures, values, waiting,
                          chans, nextPtr, now, nextSweep, callLog,
                          failedCircuitJobs, lastOp, spaceDone,
                          wdeps, jobLog, lastScale, retry, lb, JobCount,
                          FailureCount, otherVars >>

\* close(q.workers); return
CloseReady(c) ==
  /\ Alive /\ closePc[c] = "ready"
  /\ IF workersClosed
     THEN Panic("close of closed channel")
     ELSE /\ workersClosed' = TRUE
          /\ closePc' = [closePc EXCEPT ![c] = "done"]
          /\ UNCHANGED << cancelled, panicked, jobs, jobsClosed, workers,
                          quitClosed, workerList, slotClosed, breakers, wpc,
                          wjob, wres, mpc, mjob, mslot, spc, cpc, nCalls, metricsMu, WorkerCount,
                          JobQueueSize, SchedulingFailures, values, waiting,
                          chans, nextPtr, now, nextSweep, callLog,
                          failedCircuitJobs, lastOp, spaceDone,
                          wdeps, jobLog, lastScale, retry, lb, JobCount,
                          FailureCount, otherVars >>

(* ---- the pool's specification ---- *)

\* the select in processJobWithTimeout: <-ctx.Done() or <-done
SelectBranches == {"ctx", "done"}

\* what the client submits: a callable's result and an option
JobInputs == {<< "ok", "none" >>}

\* the same, for a client that uses the circuit-breaker option
CircuitInputs == {"ok", "failure"} \X JobOptions

\* the steps of the goroutines q.wg counts
WgStep ==
  \/ ManageExit \/ ManageTakeJob \/ ManageTakeSlot \/ ManageHandOff
  \/ ManageTimeout
  \/ \E w \in WorkerIds :
       \/ WorkerCheck(w) \/ WorkerRegister(w) \/ WorkerWaitExit(w)
       \/ WorkerStoreResult(w)
       \/ \E o \in SelectBranches : WorkerProcessJob(w, o)
  \/ CollectTick \/ CollectExit
  \/ ScalerEvaluate \/ ScalerExit

\* every step of the pool other than a Schedule call
PoolStep ==
  \/ ManageExit
  \/ ManageTakeJob
  \/ ManageTakeSlot
  \/ ManageHandOff
  \/ ManageTimeout
  \/ \E w \in WorkerIds : WorkerCheck(w)
  \/ \E w \in WorkerIds : WorkerRegister(w)
  \/ \E w \in WorkerIds : WorkerWaitExit(w)
  \/ \E w \in WorkerIds, o \in SelectBranches : WorkerProcessJob(w, o)
  \/ \E w \in WorkerIds : WorkerStoreResult(w)
  \/ CollectTick
  \/ CollectExit
  \/ ScalerEvaluate
  \/ ScalerExit
  \/ \E c \in Closers : CloseCancel(c)
  \/ \E c \in Closers : CloseWait(c)
  \/ \E c \in Closers : CloseWorkerSlots(c)
  \/ \E c \in Closers : CloseQuit(c)
  \/ \E c \in Closers : CloseJobs(c)
  \/ \E c \in Closers : CloseReady(c)

\* the pool under a burst of up to MaxCalls plain jobs
Next ==
  \/ \E in \in JobInputs : ScheduleSend(in[1], in[2], MaxCalls)
  \/ \E in \in JobInputs : ScheduleCtxDone(in[1], in[2], MaxCalls)
  \/ PoolStep

Spec == Init /\ [][Next]_vars

\* the pool under up to CircuitCalls jobs that may fail and may name a circuit
NextCircuit ==
  \/ \E in \in CircuitInputs : ScheduleSend(in[1], in[2], CircuitCalls)
  \/ \E in \in CircuitInputs : ScheduleCtxDone(in[1], in[2], CircuitCalls)
  \/ PoolStep

SpecCircuit == Init /\ [][NextCircuit]_vars

(* ---- the pool running jobs with retries and dependencies ---- *)

\* Schedule calls of the client that uses retries and dependencies
DependencyCalls == 2

\* what that client submits: a callable and an option
DependencyInputs ==
  {<< "ok", "none" >>, << "failure", "none" >>, << "flaky", "none" >>,
   << "flaky", "WithRetry" >>, << "ok", "WithDependencies" >>,
   << "ok", "WithDependenciesAndRetry" >>}

\* the state NewQ(ctx, MaxWorkers, MaxWorkers, config) returns: as InitPool,
\* with MaxWorkers workers started
InitDependencies ==
  /\ cancelled = FALSE /\ panicked = "none"
  /\ jobs = << >> /\ jobsClosed = FALSE
  /\ workers = << >> /\ workersClosed = FALSE
  /\ quitClosed = FALSE
  /\ workerList = [i \in 1 .. MaxWorkers |-> i]
  /\ slotClosed = {}
  /\ wpc = [w \in WorkerIds |-> IF w <= MaxWorkers THEN "check" ELSE "none"]
  /\ wjob = [w \in WorkerIds |-> NoJob]
  /\ wres = [w \in WorkerIds |-> "nil"]
  /\ wdeps = [w \in WorkerIds |-> NoDeps]
  /\ mpc = "idle" /\ mjob = NoJob /\ mslot = 0
  /\ spc = "run" /\ cpc = "run" /\ lastScale = 0
  /\ closePc = [c \in Closers |-> "idle"]
  /\ nCalls = 0
  /\ metricsMu = "free"
  /\ WorkerCount = MaxWorkers /\ JobQueueSize = 0 /\ SchedulingFailures = 0
  /\ JobCount = 0 /\ FailureCount = 0
  /\ values = << >> /\ waiting = << >> /\ chans = << >> /\ nextPtr = 1
  /\ now = 0 /\ nextSweep = CleanupInterval /\ spaceDone = FALSE
  /\ callLog = NoLog
  /\ failedCircuitJobs = 0
  /\ jobLog = << >>
  /\ breakers = << >> /\ lastOp = NoOp
  /\ retry = NoRetry /\ lb = NoLB /\ Idle

\* the steps of one worker while the pool is open
WorkerStep(w) ==
  \/ WorkerCheck(w)
  \/ WorkerRegister(w)
  \/ WorkerCheckDependency(w)
  \/ \E o \in SelectBranches : WorkerProcessJob(w, o)
  \/ WorkerStoreResult(w)

\* the steps of manage while the pool is open
ManageStep ==
  \/ ManageTakeJob
  \/ ManageTakeSlot
  \/ ManageHandOff
  \/ ManageTimeout

\* the open pool under up to DependencyCalls jobs with retries and
\* dependencies. With minWorkers = maxWorkers the scaler's evaluate changes
\* nothing, and nobody calls Close.
NextDependencies ==
  \/ \E in \in DependencyInputs : ScheduleSend(in[1], in[2], DependencyCalls)
  \/ ManageStep
  \/ \E w \in WorkerIds : WorkerStep(w)

SpecDependencies == InitDependencies /\ [][NextDependencies]_vars

\* the same under fair scheduling of manage and of every worker
FairDependencies ==
  /\ SpecDependencies
  /\ WF_vars(ManageStep)
  /\ \A w \in WorkerIds : WF_vars(WorkerStep(w))

(* ------------- properties of retries and dependencies ----------------- *)

\* the invocation at which a callable first succeeds, 0 if it never does
SucceedsAt(fn) ==
  CASE fn = "ok" -> 1
    [] fn = "flaky" -> FlakySucceedsAt
    [] OTHER -> 0

\* a worker has run the callable of job id and stored what came of it
RanAndStored(id) ==
  /\ jobLog[id].invoked > 0
  /\ id \in DOMAIN values
  /\ \A w \in WorkerIds : wjob[w].ID # id

\* C14: a job whose retry policy has maxAttempts = n has its callable
\* invoked at most n times; if the callable first succeeds at its k-th
\* invocation with k <= n, then it is invoked exactly k times and the stored
\* outcome is its value; otherwise it is invoked exactly n times and the
\* stored outcome is its error.
C14_RetryInvocations ==
  \A id \in DOMAIN jobLog :
     LET l == jobLog[id]
         n == l.job.RetryPolicy.MaxAttempts
         k == SucceedsAt(l.job.Fn)
     IN /\ l.invoked <= n
        /\ RanAndStored(id) =>
             IF k >= 1 /\ k <= n
             THEN l.invoked = k /\ values[id].Error = "nil"
                                /\ values[id].Value = "result"
             ELSE l.invoked = n /\ values[id].Error = "failure"

\* C15: a job whose dependency check gave up never has its callable
\* invoked, and the outcome stored for it and delivered on its future is
\* the dependency-failed error naming the dependency; and a job whose
\* callable was invoked had every dependency stored without an error.
C15_DependencyFailure ==
  \A id \in DOMAIN jobLog :
     LET l == jobLog[id]
     IN /\ l.depFailed =>
             /\ l.invoked = 0
             /\ \E i \in 1 .. Len(l.job.Dependencies) :
                   l.job.Dependencies[i] = l.dep
             /\ id \in DOMAIN values =>
                   /\ values[id].Error = DependencyFailed(l.dep)
                   /\ chans[l.future].buf = << values[id] >>
        /\ l.invoked > 0 =>
             \A i \in 1 .. Len(l.job.Dependencies) :
                /\ l.job.Dependencies[i] \in DOMAIN values
                /\ values[l.job.Dependencies[i]].Error = "nil"

\* C15 happens: the parent's outcome is an error, and the child, checked
\* against it, was failed and its outcome stored
C15_Witness ==
  \E id \in DOMAIN jobLog :
     /\ jobLog[id].depFailed
     /\ id \in DOMAIN values
     /\ jobLog[id].dep \in DOMAIN values
     /\ values[jobLog[id].dep].Error = "failure"
     /\ values[jobLog[id].dep].CreatedAt <= values[id].CreatedAt
     /\ values[jobLog[id].dep].ptr < values[id].ptr

\* C16: a child scheduled after its parent waits for it: when the parent
\* has completed successfully, the child's dependency check has not given
\* up on it, and the child's callable runs only once the parent's outcome
\* is stored.
C16_ChildWaitsForParent ==
  \A id \in DOMAIN jobLog :
     LET l == jobLog[id]
     IN \A i \in 1 .. Len(l.job.Dependencies) :
          LET parent == l.job.Dependencies[i]
          IN parent \in DOMAIN jobLog =>
               /\ l.invoked > 0 => parent \in DOMAIN values
               /\ (/\ parent \in DOMAIN values
                   /\ values[parent].Error = "nil"
                   /\ values[parent].Value = "result") => ~l.depFailed

\* C17: the dependency loop makes at most maxAttempts attempts, every one
\* of which ends; a job naming a dependency that is never stored has its
\* callable never invoked and its outcome is the dependency-failed error;
\* and a worker that has taken a job with dependencies is back on the ready
\* queue later on.
C17_DependencyWaitBounded ==
  /\ [](\A w \in WorkerIds :
          wdeps[w].attempt < DependencyMaxAttempts(wjob[w]))
  /\ [](\A id \in DOMAIN jobLog :
          \A i \in 1 .. Len(jobLog[id].job.Dependencies) :
             jobLog[id].job.Dependencies[i] < 1 =>
                /\ jobLog[id].invoked = 0
                /\ (jobLog[id].depFailed /\ id \in DOMAIN values) =>
                      values[id].Error =
                        DependencyFailed(jobLog[id].job.Dependencies[i]))
  /\ \A w \in WorkerIds :
        (wpc[w] = "exec" /\ Len(wjob[w].Dependencies) > 0)
           ~> (wpc[w] = "wait")

\* C17 happens: the job naming a dependency that is never stored was given
\* two attempts, has failed and is stored, and every worker is ready again
C17_Witness ==
  /\ 1 \in DOMAIN jobLog
  /\ jobLog[1].depFailed
  /\ jobLog[1].job.DependencyRetryPolicy.MaxAttempts = 2
  /\ 1 \in DOMAIN values
  /\ \A w \in WorkerIds : wpc[w] = "wait"

(* ------------------------- properties of the pool --------------------- *)

\* C1: every future handed out by Schedule is eventually resolved, and one
\* still unresolved at shutdown is closed. Once a Close call has returned no
\* goroutine is left to resolve anything, so every channel handed out must
\* by then have carried a value or be closed.
C1_FuturesSettledAtShutdown ==
  (\E c \in Closers : closePc[c] = "done") =>
     \A i \in 1 .. Len(chans) : chans[i].sent >= 1 \/ chans[i].closed

\* C2: no goroutine ever sends on a closed channel (q.jobs, q.workers, a
\* worker's jobs channel), whatever the interleaving of Schedule, manage,
\* the workers and Close.
C2_NoSendOnClosedChannel == panicked # "send on closed channel"

\* C3: the join inside Close completes in every reachable state: while a
\* Close call waits on q.wg, either the wait group is already empty or some
\* goroutine it counts can still take a step towards its return.
C3_CloseJoinCompletes ==
  (Alive /\ \E c \in Closers : closePc[c] = "wait") =>
     (WgDone \/ ENABLED WgStep)

\* C4: a second call to Close is a no-op: it closes no channel a second
\* time and does not panic.
C4_CloseIdempotent == panicked # "close of closed channel"

\* C8: once maxFailures jobs naming a circuit have failed, the next Schedule
\* call naming that circuit is answered with "circuit open" and puts nothing
\* on the job queue.
C8_OpenCircuitDenies ==
  (callLog.circ /\ callLog.seen >= CircuitMaxFailures) =>
     (callLog.denied /\ ~callLog.enq)

\* the jobs naming a circuit whose callable's value was stored
CircuitSuccesses ==
  {id \in DOMAIN values :
     /\ id \in DOMAIN jobLog
     /\ jobLog[id].job.CircuitID # ""
     /\ values[id].Value = "result"}

\* C23: the breaker of a circuit records each terminal failure of a job
\* bound to it exactly once: while no such job has succeeded, the breaker
\* exists and its failure count is the number of jobs that failed for good.
C23_TerminalFailureRecorded ==
  (failedCircuitJobs > 0 /\ CircuitSuccesses = {}) =>
     /\ CircuitId \in DOMAIN breakers
     /\ breakers[CircuitId].failureCount = failedCircuitJobs

\* C18: once the pool's context is cancelled while a worker holds a job
\* whose callable has not yet returned, the outcome the worker goes on to
\* store for that job is the "timed out" error, never the callable's result.
C18_CancelledJobTimesOut ==
  [][\A w \in WorkerIds :
       (cancelled /\ wpc[w] = "exec" /\ wpc'[w] = "store") =>
          wres'[w] = "timed out"]_vars

\* C19: when manage gives up on a dequeued job because no worker became
\* ready within the scheduling timeout, the outcome stored under the job id
\* has its error set to "no available workers" and no value, and every
\* channel waiting on that id has received it.
C19_NoWorkersOutcome ==
  [][ManageTimeout =>
       /\ mjob.ID \in DOMAIN values'
       /\ values'[mjob.ID].Error = "no available workers"
       /\ values'[mjob.ID].Value = "nil"
       /\ \A i \in 1 .. Len(chans) :
            (mjob.ID \in DOMAIN waiting
               /\ \E k \in 1 .. Len(waiting[mjob.ID]) :
                     waiting[mjob.ID][k] = i)
              => chans'[i].sent >= 1]_vars

\* the load the scaler last sampled calls for more workers
ScaleUpDue ==
  /\ WorkerCount > 0
  /\ JobQueueSize > ScaleUpThreshold * WorkerCount
  /\ WorkerCount < MaxWorkers

\* C20: an evaluation made when the queued load per worker exceeds
\* ScaleUpThreshold and the pool is below MaxWorkers starts workers and
\* returns: the worker count rises and the scaler goes on running.
C20_ScaleUpStartsWorkers ==
  [][(ScaleUpDue /\ ScalerEvaluate) =>
       (WorkerCount' > WorkerCount /\ spc' = "run")]_vars

(* ------------------- the result store, driven directly ---------------- *)

\* number of Await calls, of Store / StoreError calls, and the clock's last
\* instant
MaxAwaits == 2
MaxStores == 2
MaxTime == 3

\* the ids the clients use
SpaceIds == {1, 2}
\* ttl arguments: none, or one clock unit
TTLs == {0, 1}
\* states arguments: one definite state, as the pool passes
StatesInputs == {<< State("v") >>}

\* the test cleanup applies: qv.TTL > 0 && now.Sub(qv.CreatedAt) > qv.TTL
ExpiredAnyTTL(id) ==
  /\ id \in DOMAIN values
  /\ now - values[id].CreatedAt > values[id].TTL

Expired(id) ==
  /\ id \in DOMAIN values
  /\ values[id].TTL > 0
  /\ now - values[id].CreatedAt > values[id].TTL

\* the channels waiting on id
Waiters(id) == IF id \in DOMAIN waiting THEN waiting[id] ELSE << >>

\* qs.Store(id, value, states, ttl); a closed space has nil maps
SpaceStore(id, states, ttl) ==
  /\ Alive /\ nextPtr <= MaxStores
  /\ IF spaceDone
     THEN Panic("assignment to entry in nil map")
     ELSE /\ Store(id, "v", states, ttl)
          /\ lastOp' = [op |-> "Store", id |-> id, before |-> Waiters(id)]
          /\ UNCHANGED << cancelled, panicked, jobs, jobsClosed, workers,
                          workersClosed, quitClosed, workerList, slotClosed,
                          breakers, wpc, wjob, wres, mpc, mjob, mslot, spc,
                          cpc, closePc, nCalls, metricsMu, WorkerCount,
                          JobQueueSize, SchedulingFailures, now, nextSweep,
                          callLog, failedCircuitJobs, spaceDone,
                          wdeps, jobLog, lastScale, retry, lb, JobCount,
                          FailureCount, otherVars >>

\* qs.StoreError(id, err, ttl)
SpaceStoreError(id, ttl) ==
  /\ Alive /\ nextPtr <= MaxStores
  /\ IF spaceDone
     THEN Panic("assignment to entry in nil map")
     ELSE /\ StoreError(id, "failure", ttl)
          /\ lastOp' = [op |-> "StoreError", id |-> id, before |-> Waiters(id)]
          /\ UNCHANGED << cancelled, panicked, jobs, jobsClosed, workers,
                          workersClosed, quitClosed, workerList, slotClosed,
                          breakers, wpc, wjob, wres, mpc, mjob, mslot, spc,
                          cpc, closePc, nCalls, metricsMu, WorkerCount,
                          JobQueueSize, SchedulingFailures, now, nextSweep,
                          callLog, failedCircuitJobs, spaceDone,
                          wdeps, jobLog, lastScale, retry, lb, JobCount,
                          FailureCount, otherVars >>

\* qs.Await(id)
SpaceAwait(id) ==
  /\ Alive /\ Len(chans) < MaxAwaits
  /\ IF spaceDone
     THEN Panic("assignment to entry in nil map")
     ELSE /\ Await(id)
          /\ lastOp' = NoOp
          /\ UNCHANGED << cancelled, panicked, jobs, jobsClosed, workers,
                          workersClosed, quitClosed, workerList, slotClosed,
                          breakers, wpc, wjob, wres, mpc, mjob, mslot, spc,
                          cpc, closePc, nCalls, metricsMu, WorkerCount,
                          JobQueueSize, SchedulingFailures, values, nextPtr,
                          now, nextSweep, callLog, failedCircuitJobs,
                          spaceDone, wdeps, jobLog, lastScale, retry, lb,
                          JobCount, FailureCount, otherVars >>

\* a client receives from the channel it was handed
SpaceRecv(c) ==
  /\ Alive /\ c \in 1 .. Len(chans) /\ Len(chans[c].buf) > 0
  /\ chans' = [chans EXCEPT ![c].buf = Tail(@)]
  /\ lastOp' = NoOp
  /\ UNCHANGED << cancelled, panicked, jobs, jobsClosed, workers,
                  workersClosed, quitClosed, workerList, slotClosed,
                  breakers, wpc, wjob, wres, mpc, mjob, mslot, spc, cpc,
                  closePc, nCalls, metricsMu, WorkerCount, JobQueueSize,
                  SchedulingFailures, values, waiting, nextPtr, now,
                  nextSweep, callLog, failedCircuitJobs, spaceDone,
                  wdeps, jobLog, lastScale, retry, lb, JobCount,
                  FailureCount, otherVars >>

\* runCleanup: case <-ticker.C: qs.cleanup()
SpaceCleanup ==
  /\ Alive /\ ~spaceDone /\ now >= nextSweep
  /\ values' = [id \in {i \in DOMAIN values : ~Expired(i)} |-> values[id]]
  /\ nextSweep' = nextSweep + CleanupInterval
  /\ lastOp' = NoOp
  /\ UNCHANGED << cancelled, panicked, jobs, jobsClosed, workers,
                  workersClosed, quitClosed, workerList, slotClosed,
                  breakers, wpc, wjob, wres, mpc, mjob, mslot, spc, cpc,
                  closePc, nCalls, metricsMu, WorkerCount, JobQueueSize,
                  SchedulingFailures, waiting, chans, nextPtr, now, callLog,
                  failedCircuitJobs, spaceDone, wdeps, jobLog, lastScale,
                  retry, lb, JobCount, FailureCount, otherVars >>

\* the clock advances; a sweep that is due runs first
SpaceTick ==
  /\ Alive /\ now < MaxTime
  /\ spaceDone \/ now < nextSweep
  /\ now' = now + 1
  /\ lastOp' = NoOp
  /\ UNCHANGED << cancelled, panicked, jobs, jobsClosed, workers,
                  workersClosed, quitClosed, workerList, slotClosed,
                  breakers, wpc, wjob, wres, mpc, mjob, mslot, spc, cpc,
                  closePc, nCalls, metricsMu, WorkerCount, JobQueueSize,
                  SchedulingFailures, values, waiting, chans, nextPtr,
                  nextSweep, callLog, failedCircuitJobs, spaceDone,
                  wdeps, jobLog, lastScale, retry, lb, JobCount,
                  FailureCount, otherVars >>

\* every channel named in a waiting list, closed
CloseWaitingFirst(cs) ==
  [c \in 1 .. Len(cs) |->
     IF \E id \in DOMAIN waiting :
          Len(waiting[id]) > 0 /\ waiting[id][1] = c
     THEN [cs[c] EXCEPT !.closed = TRUE] ELSE cs[c]]

\* for _, channels := range qs.waiting { for _, ch := range channels {
\* close(ch) } }
CloseWaiting(cs) ==
  [c \in 1 .. Len(cs) |->
     IF \E id \in DOMAIN waiting : \E i \in 1 .. Len(waiting[id]) :
          waiting[id][i] = c
     THEN [cs[c] EXCEPT !.closed = TRUE] ELSE cs[c]]

\* qs.Close(): close(qs.done), join the two maintenance goroutines, close
\* every waiting channel, set the maps to nil
SpaceClose ==
  /\ Alive
  /\ IF spaceDone
     THEN Panic("close of closed channel")
     ELSE /\ spaceDone' = TRUE
          /\ chans' = CloseWaiting(chans)
          /\ values' = << >>
          /\ waiting' = << >>
          /\ lastOp' = NoOp
          /\ UNCHANGED << cancelled, panicked, jobs, jobsClosed, workers,
                          workersClosed, quitClosed, workerList, slotClosed,
                          breakers, wpc, wjob, wres, mpc, mjob, mslot, spc,
                          cpc, closePc, nCalls, metricsMu, WorkerCount,
                          JobQueueSize, SchedulingFailures, nextPtr, now,
                          nextSweep, callLog, failedCircuitJobs,
                          wdeps, jobLog, lastScale, retry, lb, JobCount,
                          FailureCount, otherVars >>

NextSpace ==
  \/ \E id \in SpaceIds, st \in StatesInputs, ttl \in TTLs :
       SpaceStore(id, st, ttl)
  \/ \E id \in SpaceIds, ttl \in TTLs : SpaceStoreError(id, ttl)
  \/ \E id \in SpaceIds : SpaceAwait(id)
  \/ \E c \in 1 .. MaxAwaits : SpaceRecv(c)
  \/ SpaceCleanup
  \/ SpaceTick
  \/ SpaceClose

SpecSpace == Init /\ [][NextSpace]_vars

(* ----------------------- properties of the store ---------------------- *)

\* C5: a waiter registered by Await(id) before a Store or StoreError on id
\* receives that stored outcome on its channel: right after the store every
\* channel that was waiting on the id holds exactly the value stored.
C5_WaiterReceivesStored ==
  lastOp.op \in {"Store", "StoreError"} =>
     \A i \in 1 .. Len(lastOp.before) :
        chans[lastOp.before[i]].buf = << values[lastOp.id] >>

\* C5 happens: a store on an id with two waiters, one registered before a
\* second Await on the same id
C5_Witness ==
  /\ lastOp.op \in {"Store", "StoreError"}
  /\ Len(lastOp.before) >= 2

\* C6: a future never resolves more than once: over its lifetime a channel
\* handed out by Await carries at most one outcome, whatever Store,
\* StoreError and Close calls follow.
C6_SingleShot == \A c \in 1 .. Len(chans) : chans[c].sent <= 1

\* C6 happens: a channel delivered its outcome, the client took it, and the
\* same id was stored again
C6_Witness ==
  /\ lastOp.op \in {"Store", "StoreError"}
  /\ \E c \in 1 .. Len(chans) :
        /\ chans[c].sent = 1 /\ chans[c].buf = << >> /\ ~chans[c].closed
        /\ values[lastOp.id].ptr > 1

\* C7: an expired entry is indistinguishable from a never-stored one: for
\* an entry whose age exceeds its ttl > 0, Exists answers false and Await
\* does not resolve with it but registers a waiter.
C7_ExpiredIsAbsent ==
  \A id \in SpaceIds : Expired(id) => (~Exists(id) /\ ~AwaitResolves(id))

(* ------------------- one circuit breaker, driven directly ------------- *)

\* RecordFailure calls made on the breaker at most
MaxRecorded == 4

\* NewCircuitBreaker arguments
MaxFailuresInputs == 1 .. CircuitMaxFailures
ResetTimeouts == {0, 1, 2}
HalfOpenMaxes == {1, 2}

\* the breaker under test
TheBreaker == breakers[CircuitId]

\* Allow calls answered true in one HALF_OPEN period that the model follows
MaxProbes == 3

\* Allow calls that found the breaker HALF_OPEN and returned true since it
\* became HALF_OPEN, after a call op that answers result and leaves post
Admitted(op, result, post) ==
  IF op = "Allow" /\ TheBreaker.state = "HALF_OPEN" /\ result
  THEN lastOp.admitted + 1
  ELSE IF TheBreaker.state = "HALF_OPEN" /\ post.state = "HALF_OPEN"
       THEN lastOp.admitted
       ELSE 0

\* RecordSuccess calls made since the breaker became HALF_OPEN
Successes(op, post) ==
  IF op = "RecordSuccess" /\ TheBreaker.state = "HALF_OPEN"
  THEN lastOp.succ + 1
  ELSE IF TheBreaker.state = "HALF_OPEN" /\ post.state = "HALF_OPEN"
       THEN lastOp.succ
       ELSE 0

\* lastOp of the breaker: the call, the state it found, its answer, the
\* failures recorded since the last success, the time since the breaker
\* opened as the call found it, the failure counter it found, and the two
\* counts of the HALF_OPEN period
CBOp(op, result, run, post) ==
  [op |-> op, pre |-> TheBreaker.state, result |-> result, run |-> run,
   age |-> now - TheBreaker.openTime, count |-> TheBreaker.failureCount,
   admitted |-> Admitted(op, result, post), succ |-> Successes(op, post)]

\* breaker := NewCircuitBreaker(maxFailures, resetTimeout, halfOpenMax)
InitCB ==
  /\ InitPool
  /\ \E mf \in MaxFailuresInputs, rt \in ResetTimeouts, hm \in HalfOpenMaxes :
       breakers = [c \in {CircuitId} |-> NewCircuitBreaker(mf, rt, hm)]
  /\ lastOp = [op |-> "none", pre |-> "CLOSED", result |-> TRUE, run |-> 0,
               age |-> 0, count |-> 0, admitted |-> 0, succ |-> 0]
  /\ retry = NoRetry /\ lb = NoLB /\ Idle

\* breaker.Allow()
CBAllow ==
  /\ TheBreaker.state = "HALF_OPEN" => lastOp.admitted < MaxProbes
  /\ breakers' = [breakers EXCEPT ![CircuitId] = AllowState(@, now)]
  /\ lastOp' = CBOp("Allow", AllowResult(TheBreaker, now), lastOp.run,
                   AllowState(TheBreaker, now))
  /\ UNCHANGED << cancelled, panicked, jobs, jobsClosed, workers,
                  workersClosed, quitClosed, workerList, slotClosed, wpc,
                  wjob, wres, mpc, mjob, mslot, spc, cpc, closePc, nCalls,
                  metricsMu, WorkerCount, JobQueueSize, SchedulingFailures,
                  values, waiting, chans, nextPtr, now, nextSweep, callLog,
                  failedCircuitJobs, spaceDone, wdeps, jobLog, lastScale,
                  retry, lb, JobCount, FailureCount, otherVars >>

\* breaker.RecordFailure()
CBRecordFailure ==
  /\ TheBreaker.failureCount < MaxRecorded
  /\ breakers' = [breakers EXCEPT ![CircuitId] = RecordFailure(@, now)]
  /\ lastOp' = CBOp("RecordFailure", TRUE, lastOp.run + 1,
                   RecordFailure(TheBreaker, now))
  /\ UNCHANGED << cancelled, panicked, jobs, jobsClosed, workers,
                  workersClosed, quitClosed, workerList, slotClosed, wpc,
                  wjob, wres, mpc, mjob, mslot, spc, cpc, closePc, nCalls,
                  metricsMu, WorkerCount, JobQueueSize, SchedulingFailures,
                  values, waiting, chans, nextPtr, now, nextSweep, callLog,
                  failedCircuitJobs, spaceDone, wdeps, jobLog, lastScale,
                  retry, lb, JobCount, FailureCount, otherVars >>

\* breaker.RecordSuccess()
CBRecordSuccess ==
  /\ breakers' = [breakers EXCEPT ![CircuitId] = RecordSuccess(@)]
  /\ lastOp' = CBOp("RecordSuccess", TRUE, 0, RecordSuccess(TheBreaker))
  /\ UNCHANGED << cancelled, panicked, jobs, jobsClosed, workers,
                  workersClosed, quitClosed, workerList, slotClosed, wpc,
                  wjob, wres, mpc, mjob, mslot, spc, cpc, closePc, nCalls,
                  metricsMu, WorkerCount, JobQueueSize, SchedulingFailures,
                  values, waiting, chans, nextPtr, now, nextSweep, callLog,
                  failedCircuitJobs, spaceDone, wdeps, jobLog, lastScale,
                  retry, lb, JobCount, FailureCount, otherVars >>

\* breaker.Renormalize()
CBRenormalize ==
  /\ breakers' = [breakers EXCEPT ![CircuitId] = Renormalize(@, now)]
  /\ lastOp' = CBOp("Renormalize", TRUE, lastOp.run,
                   Renormalize(TheBreaker, now))
  /\ UNCHANGED << cancelled, panicked, jobs, jobsClosed, workers,
                  workersClosed, quitClosed, workerList, slotClosed, wpc,
                  wjob, wres, mpc, mjob, mslot, spc, cpc, closePc, nCalls,
                  metricsMu, WorkerCount, JobQueueSize, SchedulingFailures,
                  values, waiting, chans, nextPtr, now, nextSweep, callLog,
                  failedCircuitJobs, spaceDone, wdeps, jobLog, lastScale,
                  retry, lb, JobCount, FailureCount, otherVars >>

\* the clock advances
CBTick ==
  /\ now < MaxTime
  /\ now' = now + 1
  /\ lastOp' = CBOp("none", TRUE, lastOp.run, TheBreaker)
  /\ UNCHANGED << cancelled, panicked, jobs, jobsClosed, workers,
                  workersClosed, quitClosed, workerList, slotClosed,
                  breakers, wpc, wjob, wres, mpc, mjob, mslot, spc, cpc,
                  closePc, nCalls, metricsMu, WorkerCount, JobQueueSize,
                  SchedulingFailures, values, waiting, chans, nextPtr,
                  nextSweep, callLog, failedCircuitJobs, spaceDone,
                  wdeps, jobLog, lastScale, retry, lb, JobCount,
                  FailureCount, otherVars >>

NextCB ==
  \/ CBAllow
  \/ CBRecordFailure
  \/ CBRecordSuccess
  \/ CBRenormalize
  \/ CBTick

SpecCB == InitCB /\ [][NextCB]_vars

(* ---------------------- properties of the breaker --------------------- *)

\* C9: from CLOSED the breaker opens, so that the next Allow returns false,
\* exactly when maxFailures RecordFailure calls have been made with no
\* RecordSuccess between them; a RecordSuccess in CLOSED resets the count of
\* consecutive failures to 0, and a shorter run of failures leaves the
\* breaker CLOSED with Allow returning true.
C9_OpensAtMaxConsecutiveFailures ==
  /\ (lastOp.op = "RecordFailure" /\ lastOp.pre = "CLOSED") =>
        /\ TheBreaker.state = "OPEN" <=> lastOp.run = TheBreaker.maxFailures
        /\ TheBreaker.state = "OPEN" => ~AllowResult(TheBreaker, now)
        /\ TheBreaker.state # "OPEN" =>
              TheBreaker.state = "CLOSED" /\ AllowResult(TheBreaker, now)
  /\ (lastOp.op = "RecordSuccess" /\ lastOp.pre = "CLOSED") =>
        TheBreaker.state = "CLOSED" /\ TheBreaker.failureCount = 0
  /\ TheBreaker.state = "CLOSED" =>
        /\ TheBreaker.failureCount = lastOp.run
        /\ lastOp.run < TheBreaker.maxFailures

\* C9 happens: a RecordFailure found a breaker CLOSED whose maxFailures is
\* above 1 and opened it
C9_Witness ==
  /\ lastOp.op = "RecordFailure" /\ lastOp.pre = "CLOSED"
  /\ TheBreaker.state = "OPEN"
  /\ TheBreaker.maxFailures > 1

C11_HalfOpenBurstBounded ==
  TheBreaker.state = "HALF_OPEN" =>
     lastOp.admitted <= TheBreaker.halfOpenMax

\* C12: a RecordSuccess that finds the breaker HALF_OPEN closes it, with the
\* failure counter and the half-open counter at 0, exactly when it is the
\* halfOpenMax-th success since the breaker became HALF_OPEN; an earlier
\* success leaves the breaker HALF_OPEN.
C12_HalfOpenSuccessCloses ==
  (lastOp.op = "RecordSuccess" /\ lastOp.pre = "HALF_OPEN") =>
     IF lastOp.succ = TheBreaker.halfOpenMax
     THEN /\ TheBreaker.state = "CLOSED"
          /\ TheBreaker.failureCount = 0
          /\ TheBreaker.halfOpenAttempts = 0
     ELSE /\ TheBreaker.state = "HALF_OPEN"
          /\ lastOp.succ < TheBreaker.halfOpenMax

\* C12 happens: the second success of a breaker with halfOpenMax = 2 found
\* it HALF_OPEN and closed it
C12_Witness ==
  /\ lastOp.op = "RecordSuccess" /\ lastOp.pre = "HALF_OPEN"
  /\ lastOp.succ = 2 /\ TheBreaker.halfOpenMax = 2
  /\ TheBreaker.state = "CLOSED"

\* C13: a RecordFailure that finds the breaker HALF_OPEN leaves it OPEN with
\* openTime set to the time of the call, whatever the failure counter was
\* and however many half-open successes had been recorded.
C13_HalfOpenFailureReopens ==
  (lastOp.op = "RecordFailure" /\ lastOp.pre = "HALF_OPEN") =>
     /\ TheBreaker.state = "OPEN"
     /\ TheBreaker.openTime = now

\* C13 happens: a failure was recorded in HALF_OPEN after a half-open
\* success, later than the time at which the breaker had opened
C13_Witness ==
  /\ lastOp.op = "RecordFailure" /\ lastOp.pre = "HALF_OPEN"
  /\ lastOp.age > 0
  /\ TheBreaker.halfOpenAttempts > 0

(* ---------------------- the scaler and its cooldown --------------------- *)

\* Cooldown of the ScalerConfig NewQ builds, in clock units of 250 ms
Cooldown == 2

\* minWorkers of a second scaler the client starts on the pool
ScalerMinWorkers == 0
\* Schedule calls of that client, and how far its clock runs
ScalerCalls == 2
ScalerMaxTime == 4

\* what that client submits: plain jobs, and jobs that name a dependency
ScalerInputs == {<< "ok", "none" >>, << "ok", "WithDependencies" >>}

CoolingDownNoCooldown(t) ==
  t - lastScale < 0

\* time.Since(s.lastScale) < s.cooldown
CoolingDown(t) ==
  t - lastScale < Cooldown

\* what an evaluation found and what it did
EvalOp(t) ==
  [op |-> "evaluate", id |-> 0,
   before |-> << workerList, WorkerCount, lastScale >>,
   since |-> t - lastScale]

\* q := NewQ(ctx, MaxWorkers, MaxWorkers, config) followed by
\* NewScaler(q, ScalerMinWorkers, MaxWorkers, scalerConfig): all workers are
\* started and the second scaler may remove them. spc and lastScale are the
\* second scaler's.
InitScaler == InitDependencies

\* case <-ticker.C: s.evaluate() of the second scaler. The tick is taken when
\* the goroutine runs and has metrics.mu, at any reading of the clock.
ScalerTickWith(minWorkers) ==
  /\ Alive /\ spc = "run" /\ metricsMu = "free"
  /\ IF CoolingDown(now)
     THEN UNCHANGED << workerList, wpc, WorkerCount, metricsMu, spc,
                       lastScale >>
     ELSE evaluateWith(minWorkers, MaxWorkers)
  /\ lastOp' = EvalOp(now)
  /\ UNCHANGED << cancelled, panicked, jobs, jobsClosed, workers,
                  workersClosed, quitClosed, slotClosed, breakers, wjob,
                  wres, mpc, mjob, mslot, cpc, closePc, nCalls, JobQueueSize,
                  SchedulingFailures, values, waiting, chans, nextPtr, now,
                  nextSweep, callLog, failedCircuitJobs, spaceDone, wdeps,
                  jobLog, retry, lb, JobCount, FailureCount, otherVars >>

ScalerTick == ScalerTickWith(ScalerMinWorkers)

\* the evaluate of the scaler NewQ made, whose minWorkers = maxWorkers. Its
\* lastScale is the time of NewScaler for good, because it never scales:
\* WorkerCount does not exceed MaxWorkers and the load stays under
\* ScaleUpThreshold with ScalerCalls jobs. It still replaces a WorkerCount of
\* zero by one.
PoolScalerTick ==
  /\ Alive /\ metricsMu = "free"
  /\ now >= Cooldown
  /\ WorkerCount = 0
  /\ JobQueueSize <= ScaleUpThreshold
  /\ WorkerCount' = 1
  /\ UNCHANGED << cancelled, panicked, jobs, jobsClosed, workers,
                  workersClosed, quitClosed, workerList, slotClosed,
                  breakers, wpc, wjob, wres, mpc, mjob, mslot, spc, cpc,
                  closePc, nCalls, metricsMu, JobQueueSize,
                  SchedulingFailures, values, waiting, chans, nextPtr, now,
                  nextSweep, callLog, failedCircuitJobs, lastOp, spaceDone,
                  wdeps, jobLog, lastScale, retry, lb, JobCount,
                  FailureCount, otherVars >>

\* time passes
ScalerClock ==
  /\ Alive /\ now < ScalerMaxTime
  /\ now' = now + 1
  /\ UNCHANGED << cancelled, panicked, jobs, jobsClosed, workers,
                  workersClosed, quitClosed, workerList, slotClosed,
                  breakers, wpc, wjob, wres, mpc, mjob, mslot, spc, cpc,
                  closePc, nCalls, metricsMu, WorkerCount, JobQueueSize,
                  SchedulingFailures, values, waiting, chans, nextPtr,
                  nextSweep, callLog, failedCircuitJobs, lastOp, spaceDone,
                  wdeps, jobLog, lastScale, retry, lb, JobCount,
                  FailureCount, otherVars >>

\* the open pool with both scalers under up to ScalerCalls jobs
NextScaler ==
  \/ \E in \in ScalerInputs : ScheduleSend(in[1], in[2], ScalerCalls)
  \/ ManageStep
  \/ \E w \in WorkerIds : WorkerStep(w)
  \/ CollectTick
  \/ ScalerTick
  \/ PoolScalerTick
  \/ ScalerClock

SpecScaler == InitScaler /\ [][NextScaler]_vars

\* the same under fair scheduling of manage and of every worker
FairScaler ==
  /\ SpecScaler
  /\ WF_vars(ManageStep)
  /\ \A w \in WorkerIds : WF_vars(WorkerStep(w))

\* w was started and a scale-down took it off q.workerList
Removed(w) ==
  /\ wpc[w] # "none"
  /\ ~\E i \in 1 .. Len(workerList) : workerList[i] = w

\* C21: every worker removed by a scale-down eventually exits: a job it is
\* running is finished and stored, and at the next loop iteration the worker
\* leaves instead of registering for further jobs
C21_RemovedWorkerExits ==
  /\ [][\A w \in WorkerIds :
          /\ (Removed(w) /\ wpc[w] = "store") => wpc'[w] \in {"store", "check"}
          /\ (Removed(w) /\ wpc[w] = "check")
               => wpc'[w] \in {"check", "exited"}]_vars
  /\ \A w \in WorkerIds : Removed(w) ~> (wpc[w] = "exited")

MaxInitial == 4

\* math.Pow(2, e) converted to time.Duration: the conversion drops the
\* fraction, so a negative exponent gives 0
Pow2(e) == IF e < 0 THEN 0 ELSE 2 ^ e

\* ExponentialBackoff.NextDelay(attempt)
NextDelay(Initial, attempt) == Initial * Pow2(attempt - 1)

\* Worker.executeWithRetry(job) about to enter its loop, for a job with an
\* ExponentialBackoff strategy
InitRetry ==
  /\ InitPool /\ breakers = << >> /\ lastOp = NoOp /\ lb = NoLB /\ Idle
  /\ \E initial \in 1 .. MaxInitial,
        attempts \in {RetryAttempts, DefaultMaxAttempts},
        fn \in {"ok", "failure", "flaky"} :
       retry = [pc |-> "call", Fn |-> fn, Initial |-> initial,
                MaxAttempts |-> attempts, attempt |-> 0, invoked |-> 0,
                err |-> "nil", delays |-> << >>]

\* result, err = job.Fn(); if err == nil { return result, nil }; and the
\* loop's exit after the last attempt
RetryCall ==
  /\ retry.pc = "call"
  /\ LET err == Call(retry.Fn, retry.invoked + 1)
     IN retry' = [retry EXCEPT
                    !.invoked = @ + 1,
                    !.err = err,
                    !.pc = IF err = "ok" THEN "done"
                           ELSE IF retry.attempt < retry.MaxAttempts
                                THEN "sleep" ELSE "done"]
  /\ UNCHANGED << poolVars, spaceVars, breakers, lastOp, wdeps, jobLog, lb, JobCount, FailureCount, otherVars >>

\* time.Sleep(job.RetryPolicy.Strategy.NextDelay(attempt)); attempt++
RetrySleep ==
  /\ retry.pc = "sleep"
  /\ retry' = [retry EXCEPT
                 !.delays = Append(@, NextDelay(retry.Initial, retry.attempt)),
                 !.attempt = @ + 1,
                 !.pc = "call"]
  /\ UNCHANGED << poolVars, spaceVars, breakers, lastOp, wdeps, jobLog, lb, JobCount, FailureCount, otherVars >>

NextRetry == RetryCall \/ RetrySleep

SpecRetry == InitRetry /\ [][NextRetry]_vars

\* C24: the delay slept before the k-th retry is Initial * 2^(k-1); a job
\* that fails twice and then succeeds has waited Initial + 2 * Initial
C24_ExponentialBackoffDelays ==
  /\ \A k \in 1 .. Len(retry.delays) :
       retry.delays[k] = retry.Initial * 2 ^ (k - 1)
  /\ (retry.pc = "done" /\ retry.Fn = "flaky" /\ retry.err = "ok")
       => /\ Len(retry.delays) = FlakySucceedsAt - 1
          /\ retry.delays[1] + retry.delays[2] >= 3 * retry.Initial

(* --------------------- Schedule on a full job queue -------------------- *)

\* Schedule calls of a client that overruns the job queue
QueueCalls == JobsCap + 2

\* q := NewQ(ctx, 0, MaxWorkers, &Config{SchedulingTimeout:
\* SchedulingTimeout}): a pool that starts without workers, so that the queue
\* drains only as fast as manage gives jobs up
InitQueue ==
  /\ NewQ(0) /\ breakers = << >> /\ lastOp = NoOp
  /\ retry = NoRetry /\ lb = NoLB /\ Idle

\* that pool, open, under up to QueueCalls plain jobs. There is no worker to
\* step; collectMetrics and the scaler touch neither the queue nor the store.
NextQueue ==
  \/ \E in \in JobInputs : ScheduleSend(in[1], in[2], QueueCalls)
  \/ \E in \in JobInputs : ScheduleWait(in[1], in[2], QueueCalls)
  \/ \E in \in JobInputs : ScheduleCtxDone(in[1], in[2], QueueCalls)
  \/ ManageTakeJob
  \/ ManageTimeout

SpecQueue == InitQueue /\ [][NextQueue]_vars

\* the Schedule call that has just returned gave up on a full queue
TimedOut(log) == ~log.enq /\ ~log.denied /\ ~log.parked

\* C25: a Schedule call whose enqueue times out returns an error future of
\* its own and leaves the result store as it was: no entry and no waiter is
\* added for the id
C25_TimeoutLeavesStore ==
  [][(nCalls' = nCalls + 1 /\ TimedOut(callLog'))
       => /\ values' = values
          /\ waiting' = waiting
          /\ Len(chans') = Len(chans) + 1
          /\ chans'[Len(chans')].closed
          /\ chans'[Len(chans')].buf[1].Error = "job scheduling timeout"]_vars

\* a call has timed out on the full queue while the store held results
C25_Witness ==
  /\ nCalls > JobsCap
  /\ TimedOut(callLog)
  /\ Len(jobs) = JobsCap
  /\ values # << >>
  /\ chans[Len(chans)].buf[1].Error = "job scheduling timeout"

\* C26: with SchedulingTimeout configured as 0 a Schedule call never waits
\* on a full queue: it is not blocked in its select, and a call that found
\* the queue full is not enqueued later
C26_ZeroTimeoutFailsAtOnce ==
  SchedulingTimeout = 0 =>
     /\ ~callLog.parked
     /\ callLog.wasParked => ~callLog.enq

(* ------------------ closing the store, and entries' age ----------------- *)

\* a channel handed out by Await that has carried no outcome yet
Pending(c) == chans[c].sent = 0 /\ ~chans[c].closed

\* C27: once Close has returned the eviction sweep runs no more, and every
\* waiter that was pending when Close was called has had its channel
\* closed; no channel is left pending in a closed store
C27_CloseReleasesAll ==
  /\ [][/\ (~spaceDone /\ spaceDone')
             => \A c \in 1 .. Len(chans) : Pending(c) => chans'[c].closed
        /\ spaceDone => (nextSweep' = nextSweep /\ values' = values)]_vars
  /\ [](spaceDone => \A c \in 1 .. Len(chans) : ~Pending(c))

\* the store was closed with two waiters pending on it, and the time of the
\* next sweep has come since
C27_Witness ==
  /\ spaceDone /\ Alive
  /\ Len(chans) = 2
  /\ \A c \in 1 .. 2 : chans[c].closed /\ chans[c].sent = 0
  /\ now >= nextSweep

LBWorkers == 3
LBMaxLoad == 3

\* the capacities workers are given, and the durations of the jobs they
\* complete
LBCapacities == {1, 2}
Durations == {1, 3}

\* the workers SelectWorker, Limit and Renormalize range over
Active == 0 .. lb.activeWorkers - 1

AtCapacityStrict(i) ==
  lb.workerLoads[i] > lb.workerCapacity[i]

\* lb.workerLoads[i] >= float64(lb.workerCapacity[i])
AtCapacity(i) ==
  lb.workerLoads[i] >= lb.workerCapacity[i]

\* the test SelectWorker makes between worker i and the selected worker
\* when their loads are equal
BetterLatency(i, selectedWorker) ==
  \/ lb.workerLatency[selectedWorker] = 0
  \/ /\ lb.workerLatency[i] > 0
     /\ lb.workerLatency[i] < lb.workerLatency[selectedWorker]

\* the loop of SelectWorker from worker i on, with selectedWorker so far
RECURSIVE SelectLoop(_, _)
SelectLoop(i, selectedWorker) ==
  IF i >= lb.activeWorkers THEN selectedWorker
  ELSE IF AtCapacity(i) THEN SelectLoop(i + 1, selectedWorker)
  ELSE IF selectedWorker = -1 THEN SelectLoop(i + 1, i)
  ELSE IF lb.workerLoads[i] < lb.workerLoads[selectedWorker]
       THEN SelectLoop(i + 1, i)
  ELSE IF /\ lb.workerLoads[i] = lb.workerLoads[selectedWorker]
          /\ BetterLatency(i, selectedWorker)
       THEN SelectLoop(i + 1, i)
  ELSE SelectLoop(i + 1, selectedWorker)

\* lb.SelectWorker(): the worker's id, or -1 with ErrNoAvailableWorkers
SelectWorker == SelectLoop(0, -1)

LimitAtCapacityOnly ==
  \A i \in Active : lb.workerLoads[i] = lb.workerCapacity[i]

\* lb.Limit()
Limit ==
  \A i \in Active : ~(lb.workerLoads[i] < lb.workerCapacity[i])

\* balancer := NewLoadBalancer(workerCount, workerCapacity), and the
\* capacities a caller in the package then gives the workers
InitLB ==
  /\ InitPool /\ breakers = << >> /\ lastOp = NoOp /\ retry = NoRetry
  /\ Idle
  /\ \E workerCount \in 0 .. LBWorkers :
     \E capacity \in [0 .. workerCount - 1 -> LBCapacities] :
       lb = [activeWorkers |-> workerCount,
             workerLoads |-> [i \in 0 .. workerCount - 1 |-> 0],
             workerLatency |-> [i \in 0 .. workerCount - 1 |-> 0],
             workerCapacity |-> capacity]

\* workerID, err := lb.SelectWorker()
LBSelectWorker ==
  /\ lastOp' = [op |-> "SelectWorker", result |-> SelectWorker]
  /\ UNCHANGED << poolVars, spaceVars, breakers, wdeps, jobLog, retry, lb, JobCount, FailureCount, otherVars >>

\* lb.Limit()
LBLimit ==
  /\ lastOp' = [op |-> "Limit", result |-> Limit]
  /\ UNCHANGED << poolVars, spaceVars, breakers, wdeps, jobLog, retry, lb, JobCount, FailureCount, otherVars >>

\* lb.RecordJobStart(workerID)
LBRecordJobStart(workerID) ==
  /\ workerID \in Active => lb.workerLoads[workerID] < LBMaxLoad
  /\ lb' = IF workerID >= 0 /\ workerID < lb.activeWorkers
           THEN [lb EXCEPT !.workerLoads[workerID] = @ + 1]
           ELSE lb
  /\ lastOp' = NoOp
  /\ UNCHANGED << poolVars, spaceVars, breakers, wdeps, jobLog, retry, otherVars >>

\* lb.RecordJobComplete(workerID, duration)
LBRecordJobComplete(workerID, duration) ==
  /\ lb' = IF workerID >= 0 /\ workerID < lb.activeWorkers
           THEN [lb EXCEPT
                   !.workerLoads[workerID] = IF @ - 1 < 0 THEN 0 ELSE @ - 1,
                   !.workerLatency[workerID] =
                      IF @ = 0 THEN duration ELSE (@ * 4 + duration) \div 5]
           ELSE lb
  /\ lastOp' = NoOp
  /\ UNCHANGED << poolVars, spaceVars, breakers, wdeps, jobLog, retry, otherVars >>

\* lb.Renormalize()
LBRenormalize ==
  /\ lb' = [lb EXCEPT !.workerLoads =
              [i \in Active |-> IF lb.workerLoads[i] > lb.workerCapacity[i]
                                THEN lb.workerCapacity[i]
                                ELSE lb.workerLoads[i]]]
  /\ lastOp' = NoOp
  /\ UNCHANGED << poolVars, spaceVars, breakers, wdeps, jobLog, retry, otherVars >>

NextLB ==
  \/ LBSelectWorker
  \/ LBLimit
  \/ \E w \in -1 .. LBWorkers : LBRecordJobStart(w)
  \/ \E w \in -1 .. LBWorkers, d \in Durations : LBRecordJobComplete(w, d)
  \/ LBRenormalize

SpecLB == InitLB /\ [][NextLB]_vars

\* the workers below capacity, and those of them with the least load
BelowCapacity == {i \in Active : lb.workerLoads[i] < lb.workerCapacity[i]}
LeastLoaded ==
  {i \in BelowCapacity :
     \A j \in BelowCapacity : lb.workerLoads[i] <= lb.workerLoads[j]}

\* C29: among the below-capacity workers that share the minimum load,
\* SelectWorker returns a worker with zero recorded latency if there is
\* one, and otherwise the worker with the lowest latency
C29_TieBrokenByLatency ==
  (lastOp.op = "SelectWorker" /\ lastOp.result # -1) =>
     /\ lastOp.result \in LeastLoaded
     /\ IF \E j \in LeastLoaded : lb.workerLatency[j] = 0
        THEN lb.workerLatency[lastOp.result] = 0
        ELSE \A j \in LeastLoaded :
               lb.workerLatency[lastOp.result] <= lb.workerLatency[j]

\* C30: SelectWorker never returns a worker whose load has reached its
\* capacity, the load of the worker it returns is the minimum over all
\* below-capacity workers, and it returns a worker whenever one is below
\* capacity
C30_SelectsLeastLoadedBelowCapacity ==
  lastOp.op = "SelectWorker" =>
     IF lastOp.result = -1
     THEN BelowCapacity = {}
     ELSE /\ lastOp.result \in Active
          /\ lb.workerLoads[lastOp.result] < lb.workerCapacity[lastOp.result]
          /\ \A j \in BelowCapacity :
                lb.workerLoads[lastOp.result] <= lb.workerLoads[j]

\* SelectWorker passed over a worker at its capacity and one above it, and
\* returned the third, whose load is above zero
C30_Witness ==
  /\ lastOp.op = "SelectWorker" /\ lastOp.result # -1
  /\ lb.workerLoads[lastOp.result] > 0
  /\ \E i \in Active : lb.workerLoads[i] = lb.workerCapacity[i]
  /\ \E i \in Active : lb.workerLoads[i] > lb.workerCapacity[i]

\* C37: the balancer's two answers agree: Limit returns true exactly when
\* SelectWorker returns no worker, also when a load is above its capacity
\* and when no worker is active
C37_LimitAgreesWithSelectWorker ==
  /\ lastOp.op = "SelectWorker" => (lastOp.result = -1 <=> Limit)
  /\ lastOp.op = "Limit" => (lastOp.result <=> SelectWorker = -1)

\* Limit answered true on a balancer with a worker above its capacity and
\* another just at it
C37_Witness ==
  /\ lastOp.op = "Limit" /\ lastOp.result
  /\ \E i \in Active : lb.workerLoads[i] > lb.workerCapacity[i]
  /\ \E i \in Active : lb.workerLoads[i] = lb.workerCapacity[i]

(* --------------------------- counting the jobs -------------------------- *)

\* the jobs that have completed: a worker has stored their outcome, the
\* callable's result or an error (manage stores a nil value for a job it
\* found no worker for)
Completed ==
  {id \in DOMAIN values :
     values[id].Value = "result" \/ values[id].Error # "nil"}

RLMaxTokens == 2
RLMaxTime == 6

\* the refill rates a limiter is made with, in clock units
RefillRates == {1, 2, 3}

\* Go's integer division, which truncates toward zero
TruncDiv(a, b) == IF a >= 0 THEN a \div b ELSE -((-a) \div b)

refillNoCap(r, t) ==
  LET tokensToAdd ==
        TruncDiv((t - r.lastRefill) + TruncDiv(r.refillRate, 2), r.refillRate)
  IN IF tokensToAdd > 0
     THEN [r EXCEPT !.tokens = r.tokens + tokensToAdd,
                    !.lastRefill = @ + tokensToAdd * r.refillRate]
     ELSE r

\* rl.refill() at time t
refill(r, t) ==
  LET elapsed == t - r.lastRefill
      tokensToAdd ==
        TruncDiv(elapsed + TruncDiv(r.refillRate, 2), r.refillRate)
  IN IF tokensToAdd > 0
     THEN [r EXCEPT !.tokens = Min(r.maxTokens, r.tokens + tokensToAdd),
                    !.lastRefill = @ + tokensToAdd * r.refillRate]
     ELSE r

\* limiter := NewRateLimiter(maxTokens, refillRate) at time 0; lastOp keeps
\* the times at which Limit let an operation through
InitRL ==
  /\ InitPool /\ breakers = << >> /\ retry = NoRetry /\ lb = NoLB
  /\ children = << >> /\ parents = << >> /\ ent = NoEnt /\ cbc = NoCallers
  /\ lastOp = [op |-> "none", result |-> FALSE, passes |-> << >>]
  /\ \E maxTokens \in 1 .. RLMaxTokens, refillRate \in RefillRates :
       rl = [tokens |-> maxTokens, maxTokens |-> maxTokens,
             refillRate |-> refillRate, lastRefill |-> now - refillRate]

\* rl.Limit()
RLLimit ==
  /\ LET r == refill(rl, now)
     IN IF r.tokens > 0
        THEN /\ rl' = [r EXCEPT !.tokens = @ - 1]
             /\ lastOp' = [op |-> "Limit", result |-> FALSE,
                           passes |-> Append(lastOp.passes, now)]
        ELSE /\ rl' = r
             /\ lastOp' = [lastOp EXCEPT !.op = "Limit", !.result = TRUE]
  /\ UNCHANGED << poolVars, spaceVars, breakers, wdeps, jobLog, retry, lb,
                  children, parents, ent, cbc >>

\* rl.Renormalize()
RLRenormalize ==
  /\ rl' = refill(rl, now)
  /\ lastOp' = [lastOp EXCEPT !.op = "Renormalize", !.result = FALSE]
  /\ UNCHANGED << poolVars, spaceVars, breakers, wdeps, jobLog, retry, lb,
                  children, parents, ent, cbc >>

\* time passes
RLTick ==
  /\ now < RLMaxTime
  /\ now' = now + 1
  /\ UNCHANGED << poolVars, values, waiting, chans, nextPtr, nextSweep,
                  spaceDone, breakers, lastOp, wdeps, jobLog, retry, lb,
                  otherVars >>

NextRL == RLLimit \/ RLRenormalize \/ RLTick

SpecRL == InitRL /\ [][NextRL]_vars

RelIds == {"A", "B", "C"}

\* m[id] of a Go map of slices: nil for a missing key
Listed(m, id) == IF id \in DOMAIN m THEN m[id] ELSE << >>

\* checkCircular(current) inside wouldCreateCircle(parentID, childID), with
\* the ids visited on the way
RECURSIVE checkCircular(_, _, _)
checkCircular(current, parentID, visited) ==
  IF current = parentID THEN TRUE
  ELSE IF current \in visited THEN FALSE
  ELSE \E i \in 1 .. Len(Listed(parents, current)) :
         checkCircular(Listed(parents, current)[i], parentID,
                       visited \cup {current})

\* qs.wouldCreateCircle(parentID, childID)
wouldCreateCircle(parentID, childID) ==
  checkCircular(childID, parentID, {})

\* qs := NewQSpace()
InitRel ==
  /\ InitPool /\ breakers = << >> /\ retry = NoRetry /\ lb = NoLB
  /\ rl = NoRL /\ ent = NoEnt /\ cbc = NoCallers
  /\ children = << >> /\ parents = << >>
  /\ lastOp = [op |-> "none", err |-> "nil", parentID |-> "", childID |-> "",
               before |-> << >>]

\* err := qs.AddRelationship(parentID, childID)
AddRelationship(parentID, childID) ==
  /\ IF wouldCreateCircle(parentID, childID)
     THEN /\ UNCHANGED << children, parents, cbc >>
          /\ lastOp' = [op |-> "AddRelationship",
                        err |-> "circular dependency detected",
                        parentID |-> parentID, childID |-> childID,
                        before |-> children]
     ELSE /\ children' = MapPut(children, parentID,
                                Append(Listed(children, parentID), childID))
          /\ parents' = MapPut(parents, childID,
                               Append(Listed(parents, childID), parentID))
          /\ lastOp' = [op |-> "AddRelationship", err |-> "nil",
                        parentID |-> parentID, childID |-> childID,
                        before |-> children]
  /\ UNCHANGED << poolVars, spaceVars, breakers, wdeps, jobLog, retry, lb,
                  rl, ent, cbc >>

NextRel == \E parentID, childID \in RelIds : AddRelationship(parentID, childID)

SpecRel == InitRel /\ [][NextRel]_vars

\* the children of id in the graph g
Kids(g, id) == {Listed(g, id)[i] : i \in 1 .. Len(Listed(g, id))}

\* the ids reached from the set S by parent -> child edges of g
RECURSIVE Reached(_, _)
Reached(g, S) ==
  LET T == S \cup UNION {Kids(g, id) : id \in S}
  IN IF T = S THEN S ELSE Reached(g, T)

\* g has a cycle; the edge parentID -> childID would close one in g
Cyclic(g) == \E id \in RelIds : id \in Reached(g, Kids(g, id))
ClosesCycle(g, parentID, childID) == parentID \in Reached(g, {childID})

\* C32: AddRelationship returns an error exactly for the edges that would
\* close a cycle, so that the parent -> child graph stays acyclic
C32_NoCircularRelationship ==
  /\ ~Cyclic(children)
  /\ lastOp.op = "AddRelationship" =>
       (lastOp.err # "nil"
          <=> ClosesCycle(lastOp.before, lastOp.parentID, lastOp.childID))

(* ----------------------------- Entanglement ----------------------------- *)

\* goroutines that call UpdateState once each
EntUpdaters == 3

\* the goroutines: the updaters, and one that calls ReplayStateChanges
Updaters == 1 .. EntUpdaters
Replayer == 0

LockAlways == TRUE

\* e.mu.Lock() gets past the writers' mutex of the RWMutex: no other writer
\* holds or awaits the lock
LockFree ==
  ent.w = 0

\* e.mu.RLock() succeeds: no writer holds or awaits the lock. A writer that
\* has called Lock keeps later readers out until it has had the lock.
CanRLock == ent.w = 0

\* e := NewEntanglement(id, jobs, ttl), and the goroutines about to call
EntInit ==
  /\ InitPool /\ breakers = << >> /\ retry = NoRetry /\ lb = NoLB
  /\ rl = NoRL /\ children = << >> /\ parents = << >> /\ cbc = NoCallers
  /\ lastOp = NoOp
  /\ ent = [stateLedger |-> << >>, w |-> 0, readers |-> 0,
            pc |-> [g \in Updaters \cup {Replayer} |-> "call"],
            change |-> [g \in Updaters |-> 0],
            history |-> << >>]

\* UpdateState: e.mu.Lock() is called; later readers are kept out
UpdateLock(g) ==
  /\ ent.pc[g] = "call" /\ LockFree
  /\ ent' = [ent EXCEPT !.w = g, !.pc[g] = "pending"]
  /\ UNCHANGED << poolVars, spaceVars, breakers, lastOp, wdeps, jobLog,
                  retry, lb, rl, children, parents, cbc >>

\* UpdateState: e.mu.Lock() returns once the readers have left
UpdateLocked(g) ==
  /\ ent.pc[g] = "pending" /\ ent.readers = 0
  /\ ent' = [ent EXCEPT !.pc[g] = "locked"]
  /\ UNCHANGED << poolVars, spaceVars, breakers, lastOp, wdeps, jobLog,
                  retry, lb, rl, children, parents, cbc >>

\* change := StateChange{.., Sequence: uint64(len(e.stateLedger))}
UpdateChange(g) ==
  /\ ent.pc[g] = "locked"
  /\ ent' = [ent EXCEPT !.change[g] = Len(ent.stateLedger),
                        !.pc[g] = "change"]
  /\ UNCHANGED << poolVars, spaceVars, breakers, lastOp, wdeps, jobLog,
                  retry, lb, rl, children, parents, cbc >>

\* e.stateLedger = append(e.stateLedger, change); e.SharedState[key] = value
UpdateAppend(g) ==
  /\ ent.pc[g] = "change"
  /\ ent' = [ent EXCEPT
               !.stateLedger = Append(@, [Sequence |-> ent.change[g],
                                          Key |-> g]),
               !.pc[g] = "unlock"]
  /\ UNCHANGED << poolVars, spaceVars, breakers, lastOp, wdeps, jobLog,
                  retry, lb, rl, children, parents, cbc >>

\* defer e.mu.Unlock()
UpdateUnlock(g) ==
  /\ ent.pc[g] = "unlock"
  /\ ent' = [ent EXCEPT !.w = IF @ = g THEN 0 ELSE @, !.pc[g] = "done"]
  /\ UNCHANGED << poolVars, spaceVars, breakers, lastOp, wdeps, jobLog,
                  retry, lb, rl, children, parents, cbc >>

\* ReplayStateChanges: e.mu.RLock()
ReplayRLock ==
  /\ ent.pc[Replayer] = "call" /\ CanRLock
  /\ ent' = [ent EXCEPT !.readers = @ + 1, !.pc[Replayer] = "held"]
  /\ UNCHANGED << poolVars, spaceVars, breakers, lastOp, wdeps, jobLog,
                  retry, lb, rl, children, parents, cbc >>

\* ReplayStateChanges -> GetStateHistory(0): e.mu.RLock()
HistoryRLock ==
  /\ ent.pc[Replayer] = "held" /\ CanRLock
  /\ ent' = [ent EXCEPT !.readers = @ + 1, !.pc[Replayer] = "inner"]
  /\ UNCHANGED << poolVars, spaceVars, breakers, lastOp, wdeps, jobLog,
                  retry, lb, rl, children, parents, cbc >>

\* GetStateHistory(0): return e.stateLedger[0:]; defer e.mu.RUnlock()
HistoryReturn ==
  /\ ent.pc[Replayer] = "inner"
  /\ ent' = [ent EXCEPT !.history = ent.stateLedger, !.readers = @ - 1,
                        !.pc[Replayer] = "replay"]
  /\ UNCHANGED << poolVars, spaceVars, breakers, lastOp, wdeps, jobLog,
                  retry, lb, rl, children, parents, cbc >>

\* ReplayStateChanges: the loop over history; defer e.mu.RUnlock()
ReplayReturn ==
  /\ ent.pc[Replayer] = "replay"
  /\ ent' = [ent EXCEPT !.readers = @ - 1, !.pc[Replayer] = "done"]
  /\ UNCHANGED << poolVars, spaceVars, breakers, lastOp, wdeps, jobLog,
                  retry, lb, rl, children, parents, cbc >>

UpdateState(g) ==
  \/ UpdateLock(g)
  \/ UpdateLocked(g)
  \/ UpdateChange(g)
  \/ UpdateAppend(g)
  \/ UpdateUnlock(g)

ReplayStateChanges ==
  \/ ReplayRLock
  \/ HistoryRLock
  \/ HistoryReturn
  \/ ReplayReturn

NextEnt ==
  \/ \E g \in Updaters : UpdateState(g)
  \/ ReplayStateChanges

SpecEnt == EntInit /\ [][NextEnt]_vars

\* every goroutine that can take a step takes it in the end
FairEnt ==
  /\ SpecEnt
  /\ \A g \in Updaters : WF_vars(UpdateState(g))
  /\ WF_vars(ReplayStateChanges)

\* C38: the ledger holds one entry per UpdateState call that has appended,
\* and the entries' sequence numbers are 0, 1, 2, .. in ledger order
C38_LedgerSequenced ==
  /\ \A i \in 1 .. Len(ent.stateLedger) :
        ent.stateLedger[i].Sequence = i - 1
  /\ \A g \in Updaters :
        Cardinality({i \in 1 .. Len(ent.stateLedger) :
                       ent.stateLedger[i].Key = g})
          = IF ent.pc[g] \in {"unlock", "done"} THEN 1 ELSE 0

\* every updater has returned, the last to call UpdateState not being the
\* last in the ledger, while ReplayStateChanges ran on a shorter ledger
C38_Witness ==
  /\ \A g \in Updaters : ent.pc[g] = "done"
  /\ Len(ent.stateLedger) = EntUpdaters
  /\ ent.stateLedger[1].Key = EntUpdaters
  /\ ent.pc[Replayer] = "done"
  /\ Len(ent.history) = 1

\* C39: ReplayStateChanges run concurrently with UpdateState always
\* returns
C39_ReplayReturns == <>(ent.pc[Replayer] = "done")

(* ------------------ one breaker called by several goroutines ------------ *)

\* goroutines that call the breaker's methods, one call after another
CBCallers == 2

Callers == 1 .. CBCallers
CBMethods == {"Allow", "RecordSuccess", "RecordFailure", "Renormalize"}

\* the earlier Allow (circuit.go) reads the state under RLock and gives the
\* lock up before it takes Lock to write
AllowGivesUpLock(method) ==
  method # "Allow"

\* the method holds cb.mu from its read of the state to its update:
\* cb.mu.Lock(); defer cb.mu.Unlock()
KeepsLock(method) ==
  TRUE

\* what the method makes of the breaker cb it has read, at time t
Method(method, cb, t) ==
  CASE method = "Allow" -> AllowState(cb, t)
    [] method = "RecordSuccess" -> RecordSuccess(cb)
    [] method = "RecordFailure" -> RecordFailure(cb, t)
    [] method = "Renormalize" -> Renormalize(cb, t)

\* the assignments of a method that read the breaker as old and computed
\* new, made on the breaker as it is now
Assign(cur, old, new) ==
  [f \in DOMAIN cur |-> IF new[f] # old[f] THEN new[f] ELSE cur[f]]

\* breaker := NewCircuitBreaker(maxFailures, resetTimeout, halfOpenMax),
\* shared by the callers
InitCallers ==
  /\ InitPool /\ retry = NoRetry /\ lb = NoLB
  /\ rl = NoRL /\ children = << >> /\ parents = << >> /\ ent = NoEnt
  /\ \E mf \in MaxFailuresInputs, rt \in {0, 1}, hm \in HalfOpenMaxes :
       breakers = [c \in {CircuitId} |-> NewCircuitBreaker(mf, rt, hm)]
  /\ cbc = [mu |-> 0, pc |-> [g \in Callers |-> "idle"],
            method |-> [g \in Callers |-> "none"],
            read |-> [g \in Callers |-> NewCircuitBreaker(0, 0, 0)]]
  /\ lastOp = [op |-> "none", g |-> 0, from |-> "CLOSED", to |-> "CLOSED",
               prev |-> 0, atomic |-> TRUE]

\* g calls a method: cb.mu.Lock() returns
CallLock(g, method) ==
  /\ cbc.pc[g] = "idle" /\ cbc.mu = 0
  /\ method = "RecordFailure" => TheBreaker.failureCount < MaxRecorded
  /\ cbc' = [cbc EXCEPT !.mu = g, !.pc[g] = "read", !.method[g] = method]
  /\ UNCHANGED << poolVars, spaceVars, breakers, lastOp, wdeps, jobLog,
                  retry, lb, rl, children, parents, ent >>

\* the method reads the breaker's fields
CallRead(g) ==
  /\ cbc.pc[g] = "read"
  /\ cbc' = [cbc EXCEPT !.read[g] = TheBreaker, !.pc[g] = "write",
                        !.mu = IF KeepsLock(cbc.method[g]) THEN g ELSE 0]
  /\ UNCHANGED << poolVars, spaceVars, breakers, lastOp, wdeps, jobLog,
                  retry, lb, rl, children, parents, ent >>

\* the method assigns what it has decided
CallWrite(g) ==
  /\ cbc.pc[g] = "write" /\ cbc.mu \in {0, g}
  /\ LET new == Method(cbc.method[g], cbc.read[g], now)
         post == Assign(TheBreaker, cbc.read[g], new)
     IN /\ breakers' = [breakers EXCEPT ![CircuitId] = post]
        /\ lastOp' = IF post.state # TheBreaker.state
                      THEN [op |-> cbc.method[g], g |-> g,
                            from |-> TheBreaker.state, to |-> post.state,
                            prev |-> lastOp.g,
                            atomic |-> cbc.read[g] = TheBreaker]
                      ELSE [lastOp EXCEPT !.atomic = cbc.read[g] = TheBreaker]
  /\ cbc' = [cbc EXCEPT !.mu = g, !.pc[g] = "unlock"]
  /\ UNCHANGED << poolVars, spaceVars, wdeps, jobLog, retry, lb, rl,
                  children, parents, ent >>

\* defer cb.mu.Unlock()
CallUnlock(g) ==
  /\ cbc.pc[g] = "unlock"
  /\ cbc' = [cbc EXCEPT !.mu = 0, !.pc[g] = "idle", !.method[g] = "none",
                        !.read[g] = NewCircuitBreaker(0, 0, 0)]
  /\ UNCHANGED << poolVars, spaceVars, breakers, lastOp, wdeps, jobLog,
                  retry, lb, rl, children, parents, ent >>

\* time passes
CallersTick ==
  /\ now < MaxTime
  /\ now' = now + 1
  /\ UNCHANGED << poolVars, values, waiting, chans, nextPtr, nextSweep,
                  spaceDone, breakers, lastOp, wdeps, jobLog, retry, lb,
                  otherVars >>

NextCallers ==
  \/ \E g \in Callers, method \in CBMethods : CallLock(g, method)
  \/ \E g \in Callers : CallRead(g)
  \/ \E g \in Callers : CallWrite(g)
  \/ \E g \in Callers : CallUnlock(g)
  \/ CallersTick

SpecCallers == InitCallers /\ [][NextCallers]_vars

\* the state changes a breaker may make
Transitions ==
  {<< "CLOSED", "OPEN" >>, << "OPEN", "HALF_OPEN" >>,
   << "HALF_OPEN", "CLOSED" >>, << "HALF_OPEN", "OPEN" >>}

\* C34: every call updates the breaker it has read, no other call coming
\* between its read and its update, and the breaker's state changes only
\* CLOSED -> OPEN, OPEN -> HALF_OPEN, HALF_OPEN -> CLOSED, HALF_OPEN -> OPEN
C34_TransitionsSerialized ==
  /\ lastOp.atomic
  /\ lastOp.op # "none" => << lastOp.from, lastOp.to >> \in Transitions

\* one goroutine closed the breaker from HALF_OPEN after the other had
\* moved it there, while that other goroutine waits for cb.mu
C34_Witness ==
  /\ lastOp.from = "HALF_OPEN" /\ lastOp.to = "CLOSED"
  /\ lastOp.prev # 0 /\ lastOp.prev # lastOp.g
  /\ cbc.mu = lastOp.g
  /\ \E g \in Callers : g # lastOp.g /\ cbc.pc[g] = "idle"

(* ------------------ a job id that is submitted again ------------------ *)

\* the id the client passes to every Schedule call
SameId == JobID(1)

\* how many times the client calls Schedule(SameId, fn)
SameIdCalls == 3

\* what the client submits under that id: a callable and an option
SameIdInputs ==
  {<< "ok", "none" >>, << "failure", "none" >>, << "ok", "WithDependencies" >>}

\* q.Schedule(SameId, fn, opt)
ScheduleSameId(fn, opt) ==
  ScheduleJob(ApplyOption(NewJob(SameId, fn), opt), SameIdCalls)

\* the open pool, with a client that schedules every job under one id
NextSameId ==
  \/ \E in \in SameIdInputs : ScheduleSameId(in[1], in[2])
  \/ ManageStep
  \/ \E w \in WorkerIds : WorkerStep(w)

SpecSameId == InitDependencies /\ [][NextSameId]_vars

\* C36: when Schedule(id, f) queues a job while the store holds the outcome
\* of an earlier job that ran to completion under id, the future it returns
\* is not resolved with that earlier outcome.
C36_FutureNotEarlierOutcome ==
  [][(nCalls' = nCalls + 1 /\ callLog'.enq)
       => LET id == jobs'[Len(jobs')].ID
              future == chans'[Len(chans')]
          IN ~(/\ id \in Completed
               /\ future.sent = 1
               /\ future.buf = << values[id] >>)]_vars

(* ------------- the worker-count metric and the worker list ------------ *)

\* C40: metrics.WorkerCount equals len(q.workerList) after construction and
\* after every startWorker, scale-up, scale-down and evaluate, a pool with
\* no workers included.
C40_WorkerCountIsListLength == WorkerCount = Len(workerList)

(* ---------------- the scaler's bounds on the worker count ------------- *)

\* minWorkers of a second scaler that may remove workers but not all of them
BoundsMinWorkers == 1

\* Schedule calls of the client: enough to lift the load of one worker over
\* ScaleUpThreshold
BoundsCalls == 5

\* case <-ticker.C: s.evaluate() of the scaler with minWorkers BoundsMinWorkers
BoundsScalerTick == ScalerTickWith(BoundsMinWorkers)

\* case <-ticker.C: s.evaluate() of the scaler NewQ made, whose minWorkers =
\* maxWorkers. It scales up once the other scaler has removed a worker and
\* the queue has grown, and then holds metrics.mu for good, which stops
\* every scaler. Its lastScale is the time of NewScaler until then.
PoolScalerEvaluate ==
  /\ Alive /\ metricsMu = "free"
  /\ now >= Cooldown
  /\ evaluateWith(MaxWorkers, MaxWorkers)
  /\ UNCHANGED << cancelled, panicked, jobs, jobsClosed, workers,
                  workersClosed, quitClosed, slotClosed, breakers, wjob,
                  wres, mpc, mjob, mslot, cpc, closePc, nCalls, JobQueueSize,
                  SchedulingFailures, values, waiting, chans, nextPtr, now,
                  nextSweep, callLog, failedCircuitJobs, lastOp, spaceDone,
                  wdeps, jobLog, retry, lb, JobCount, FailureCount,
                  otherVars >>

\* q := NewQ(ctx, MaxWorkers, MaxWorkers, config) followed by
\* NewScaler(q, BoundsMinWorkers, MaxWorkers, scalerConfig), under up to
\* BoundsCalls jobs. The scalers read JobQueueSize, WorkerCount,
\* q.workerList and the clock only; the queue grows by Schedule and shrinks
\* by manage, which takes a job and gives it up when no worker has offered
\* itself. The workers' own steps change nothing a scaler reads and are
\* left out.
NextBounds ==
  \/ \E in \in JobInputs : ScheduleSend(in[1], in[2], BoundsCalls)
  \/ ManageTakeJob
  \/ ManageTimeout
  \/ CollectTick
  \/ BoundsScalerTick
  \/ PoolScalerEvaluate
  \/ ScalerClock

SpecBounds == InitScaler /\ [][NextBounds]_vars

\* C35: after construction and after every action of the scaler, the worker
\* count is at least the scaler's minWorkers and at most its maxWorkers,
\* whatever queue sizes the scaler has seen; so is the length of
\* q.workerList.
C35_WorkersWithinBounds ==
  /\ BoundsMinWorkers <= WorkerCount /\ WorkerCount <= MaxWorkers
  /\ BoundsMinWorkers <= Len(workerList) /\ Len(workerList) <= MaxWorkers

\* the scaler has removed a worker, down to minWorkers, and a later
\* evaluation has added one again, up to maxWorkers
C35_Witness ==
  /\ lastScale > 0
  /\ WorkerCount = BoundsMinWorkers
  /\ Len(workerList) = MaxWorkers
  /\ spc = "blocked"

====
